---- MODULE Spec2Model ----
(***************************************************************************)
(* Synaptra: an MCP server in front of one GraphQL endpoint.               *)
(*                                                                         *)
(* The model follows the call handler and start() of McpGraphQLServer      *)
(* (server.ts), the three tool handlers (tools/) and GraphQLClientService  *)
(* (services/graphql-client.ts).  A call runs synchronously up to its      *)
(* first await, so the whole prefix of a call (argument parsing, policy,   *)
(* parse, validate, dry run, header merge, first dispatch) is one action;  *)
(* the answer of the transport and the end of a backoff timer are the      *)
(* other steps.  The endpoint serves schemas graphql accepts as valid.     *)
(***************************************************************************)
EXTENDS Integers, Sequences, FiniteSets, TLC

(***************************************************************************)
(* Bounds of the model.                                                    *)
(***************************************************************************)
MaxRetries == 2

\* the clock (Date) runs from 0 to MaxClock
MaxClock == 1

\* retries: z.number() accepts any number; the client stores it unchanged.
RetriesValues == (0 - 2)..MaxRetries

\* The host awaits each tool call before sending the next one, so one call
\* is in progress at a time.
Calls == {"c1"}

\* A host that sends a call while another is in progress: the handler of a
\* request is started when the request arrives.
ConcurrentCalls == {"c1", "c2"}

\* the longest chain of nested fields among the analysed documents, besides
\* the chains at the warning threshold
MaxChain == 3

\* the number of fields in a group of the large analysed documents
FieldsPerGroup == 10

(***************************************************************************)
(* Text.  A query text is a sequence of one-character strings.             *)
(***************************************************************************)
UpperAlpha == <<"A","B","C","D","E","F","G","H","I","J","K","L","M",
                "N","O","P","Q","R","S","T","U","V","W","X","Y","Z">>
LowerAlpha == <<"a","b","c","d","e","f","g","h","i","j","k","l","m",
                "n","o","p","q","r","s","t","u","v","w","x","y","z">>

Range(s) == {s[i] : i \in DOMAIN s}

\* String.prototype.toLowerCase, one character
LowerChar(ch) ==
    IF ch \in Range(UpperAlpha)
    THEN LowerAlpha[CHOOSE i \in DOMAIN UpperAlpha : UpperAlpha[i] = ch]
    ELSE ch

toLowerCase(s) == [i \in DOMAIN s |-> LowerChar(s[i])]

\* the characters String.prototype.trim strips
WhiteSpace == {" ", "\n", "\t"}

RECURSIVE TrimStart(_)
TrimStart(s) ==
    IF s # <<>> /\ Head(s) \in WhiteSpace THEN TrimStart(Tail(s)) ELSE s

RECURSIVE TrimEnd(_)
TrimEnd(s) ==
    IF s # <<>> /\ s[Len(s)] \in WhiteSpace
    THEN TrimEnd(SubSeq(s, 1, Len(s) - 1))
    ELSE s

trim(s) == TrimEnd(TrimStart(s))

\* String.prototype.startsWith
startsWith(s, prefix) ==
    /\ Len(prefix) <= Len(s)
    /\ SubSeq(s, 1, Len(prefix)) = prefix

KwQuery        == <<"q","u","e","r","y">>
KwMutation     == <<"m","u","t","a","t","i","o","n">>
KwSubscription == <<"s","u","b","s","c","r","i","p","t","i","o","n">>
KwFragment     == <<"f","r","a","g","m","e","n","t">>
KwOn           == <<"o","n">>
BraceL         == <<"{">>

(***************************************************************************)
(* graphql.parse, for the part of the language the model's documents use:  *)
(*   Document     ::= Definition+                                          *)
(*   Definition   ::= SelectionSet                                         *)
(*                  | (query|mutation|subscription) Name? SelectionSet     *)
(*                  | fragment Name on Name SelectionSet                   *)
(*   SelectionSet ::= "{" Selection+ "}"                                   *)
(*   Selection    ::= Name SelectionSet? | "..." Name                      *)
(*                  | "..." on Name SelectionSet                           *)
(* Keywords are case-sensitive; blanks, commas and # comments are ignored. *)
(***************************************************************************)
NameChars == Range(UpperAlpha) \cup Range(LowerAlpha) \cup {"_"}
Ignored   == {" ", "\n", "\t", ","}

\* Tokens are character sequences: a name, "{", "}", "..." or, for a
\* character the lexer rejects, <<"?">>.
BadToken == <<"?">>

\* a comment runs from a "#" to the end of its line
InComment(s, i) ==
    \E j \in {h \in 1..i : s[h] = "#"} : \A k \in j..i : s[k] # "\n"

\* the dots right before position i
DotsBefore(s, i) == Cardinality({j \in 1..(i - 1) : \A k \in j..(i - 1) : s[k] = "."})

\* the last character of the name that starts at position i
NameEnd(s, i) ==
    CHOOSE q \in i..Len(s) :
        /\ \A k \in i..q : s[k] \in NameChars
        /\ q = Len(s) \/ s[q + 1] \notin NameChars

\* the token that starts at position i: <<token>>, or <<>> when none does
TokenAt(s, i) ==
    IF s[i] \in Ignored \/ InComment(s, i) THEN <<>>
    ELSE IF s[i] \in {"{", "}"} THEN << <<s[i]>> >>
    ELSE IF s[i] = "."
    THEN IF DotsBefore(s, i) % 3 # 0 THEN <<>>
         ELSE IF i + 2 <= Len(s) /\ s[i + 1] = "." /\ s[i + 2] = "."
         THEN << <<".", ".", ".">> >>
         ELSE <<BadToken>>
    ELSE IF s[i] \in NameChars
    THEN IF i > 1 /\ s[i - 1] \in NameChars THEN <<>>
         ELSE <<SubSeq(s, i, NameEnd(s, i))>>
    ELSE <<BadToken>>

RECURSIVE LexRange(_, _, _)

LexHalves(s, lo, mid, hi) == LexRange(s, lo, mid) \o LexRange(s, mid + 1, hi)

\* the tokens that start at the positions lo..hi
LexRange(s, lo, hi) ==
    IF lo > hi THEN <<>>
    ELSE IF lo = hi THEN TokenAt(s, lo)
    ELSE LexHalves(s, lo, (lo + hi) \div 2, hi)

\* the tokens of a text; a text the lexer rejects has a BadToken among them
Lex(s) == LexRange(s, 1, Len(s))

IsName(tok) == tok # <<>> /\ tok[1] \in NameChars

\* AST nodes all have the shape [kind, operation, name, selections]; a node
\* without a selectionSet has selections = <<>>.
Node(k, op, n, sels) ==
    [kind |-> k, operation |-> op, name |-> n, selections |-> sels]

\* Parse results: [ok, nodes, rest]
ParseFail == [ok |-> FALSE, nodes |-> <<>>, rest |-> <<>>]
ParseOk(ns, r) == [ok |-> TRUE, nodes |-> ns, rest |-> r]

RECURSIVE ParseSelections(_, _)
RECURSIVE ParseSelectionSet(_, _)
RECURSIVE ParseDefinitions(_, _)

\* `node` followed by the nodes parsed after it
Cons(node, more) ==
    IF more.ok THEN ParseOk(<<node>> \o more.nodes, more.rest) ELSE ParseFail

\* a selection with a selection set `body`, then the selections after it
SelectionWithBody(kind, name, body, fuel) ==
    IF body.ok
    THEN Cons(Node(kind, "", name, body.nodes), ParseSelections(body.rest, fuel))
    ELSE ParseFail

\* "{" Selection+ "}", given the selections parsed after the "{"
CloseSelectionSet(r) ==
    IF r.ok /\ r.nodes # <<>> /\ r.rest # <<>> /\ Head(r.rest) = <<"}">>
    THEN ParseOk(r.nodes, Tail(r.rest))
    ELSE ParseFail

\* fuel bounds the recursion by the number of tokens
ParseSelectionSet(toks, fuel) ==
    IF fuel = 0 \/ toks = <<>> \/ Head(toks) # <<"{">> THEN ParseFail
    ELSE CloseSelectionSet(ParseSelections(Tail(toks), fuel - 1))

\* Selection* up to (not including) the closing brace
ParseSelections(toks, fuel) ==
    IF fuel = 0 \/ toks = <<>> THEN ParseFail
    ELSE IF Head(toks) = <<"}">> THEN ParseOk(<<>>, toks)
    ELSE IF Head(toks) = <<".", ".", ".">>
    THEN IF Len(toks) < 2 \/ ~IsName(toks[2]) THEN ParseFail
         ELSE IF toks[2] = KwOn
         THEN \* inline fragment: ... on Type { }
              IF Len(toks) < 3 \/ ~IsName(toks[3]) THEN ParseFail
              ELSE SelectionWithBody("InlineFragment", <<>>,
                       ParseSelectionSet(SubSeq(toks, 4, Len(toks)), fuel - 1),
                       fuel - 1)
         ELSE Cons(Node("FragmentSpread", "", toks[2], <<>>),
                   ParseSelections(SubSeq(toks, 3, Len(toks)), fuel - 1))
    ELSE IF IsName(Head(toks))
    THEN IF Len(toks) >= 2 /\ toks[2] = <<"{">>
         THEN SelectionWithBody("Field", Head(toks),
                  ParseSelectionSet(Tail(toks), fuel - 1), fuel - 1)
         ELSE Cons(Node("Field", "", Head(toks), <<>>),
                   ParseSelections(Tail(toks), fuel - 1))
    ELSE ParseFail

OperationKeywords == {KwQuery, KwMutation, KwSubscription}

KeywordName(kw) ==
    IF kw = KwMutation THEN "mutation"
    ELSE IF kw = KwSubscription THEN "subscription"
    ELSE "query"

\* a definition with selection set `body`, then the definitions after it
DefinitionWithBody(kind, op, name, body, fuel) ==
    IF body.ok
    THEN Cons(Node(kind, op, name, body.nodes), ParseDefinitions(body.rest, fuel))
    ELSE ParseFail

ParseDefinitions(toks, fuel) ==
    IF toks = <<>> THEN ParseOk(<<>>, <<>>)
    ELSE IF fuel = 0 THEN ParseFail
    ELSE IF Head(toks) = <<"{">>
    THEN DefinitionWithBody("OperationDefinition", "query", <<>>,
             ParseSelectionSet(toks, fuel), fuel - 1)
    ELSE IF Head(toks) \in OperationKeywords
    THEN IF Len(toks) >= 2 /\ IsName(toks[2])
         THEN DefinitionWithBody("OperationDefinition", KeywordName(Head(toks)),
                  toks[2], ParseSelectionSet(SubSeq(toks, 3, Len(toks)), fuel),
                  fuel - 1)
         ELSE DefinitionWithBody("OperationDefinition", KeywordName(Head(toks)),
                  <<>>, ParseSelectionSet(Tail(toks), fuel), fuel - 1)
    ELSE IF Head(toks) = KwFragment
    THEN IF Len(toks) < 4 \/ ~IsName(toks[2]) \/ toks[2] = KwOn
            \/ toks[3] # KwOn \/ ~IsName(toks[4])
         THEN ParseFail
         ELSE DefinitionWithBody("FragmentDefinition", "", toks[2],
                  ParseSelectionSet(SubSeq(toks, 5, Len(toks)), fuel), fuel - 1)
    ELSE ParseFail

\* the document of a token sequence
DocumentOf(toks, r) ==
    IF toks # <<>> /\ BadToken \notin Range(toks) /\ r.ok
    THEN [ok |-> TRUE, definitions |-> r.nodes]
    ELSE [ok |-> FALSE, definitions |-> <<>>]

ParseTokens(toks) == DocumentOf(toks, ParseDefinitions(toks, Len(toks) + 1))

\* parse(text): [ok |-> TRUE, definitions |-> ...] or a syntax error
parse(text) == ParseTokens(Lex(text))

(***************************************************************************)
(* Documents the model's callers send.                                     *)
(***************************************************************************)
Braces(body) == <<"{">> \o body \o <<"}">>

TextA            == Braces(<<"a">>)                          \* {a}
TextXY           == Braces(<<"x", " ", "y">>)                \* {x y}
TextMutation     == KwMutation \o Braces(<<"a">>)            \* mutation{a}
TextUpperBlank   == <<" ", "M">> \o Tail(KwMutation) \o Braces(<<"a">>)
TextSubscription == KwSubscription \o Braces(<<"a">>)        \* subscription{a}
TextComment      == <<"#", "c", "\n">> \o TextMutation       \* #c\nmutation{a}
TextUnclosed     == <<"{", "a">>                             \* {a
TextB            == Braces(<<"b">>)                          \* {b}
\* query A{a} query B{a{b}}
TextTwoOperations ==
    KwQuery \o <<" ", "A">> \o Braces(<<"a">>) \o <<" ">> \o
    KwQuery \o <<" ", "B">> \o Braces(<<"a">> \o Braces(<<"b">>))

QueryTexts ==
    {TextA, TextXY, TextMutation, TextUpperBlank, TextSubscription,
     TextComment, TextUnclosed, TextTwoOperations}

\* fi { fi+1 { ... fn } }, the fields named by the letters of the alphabet
RECURSIVE FieldChain(_, _)
FieldChain(i, n) ==
    IF i >= n THEN <<LowerAlpha[n]>>
    ELSE <<LowerAlpha[i]>> \o Braces(FieldChain(i + 1, n))

\* query { a { b { ... } } }: a linear chain of n nested fields
TextChain(n) == KwQuery \o <<" ">> \o Braces(FieldChain(1, n))

\* n field names: the same name n times, n distinct one-letter names
SameNames(n) == [i \in 1..n |-> <<"a">>]
DistinctNames(n) == [i \in 1..n |-> <<(LowerAlpha \o UpperAlpha)[i]>>]

\* the fields side by side: a b c
RECURSIVE SideBySide(_)
SideBySide(names) ==
    IF names = <<>> THEN <<>>
    ELSE Head(names) \o <<" ">> \o SideBySide(Tail(names))

\* the fields in groups of FieldsPerGroup, the first field of a group
\* selecting the others: a{b c} d{e f} g
RECURSIVE Grouped(_)
Grouped(names) ==
    IF Len(names) <= 1 THEN SideBySide(names)
    ELSE IF Len(names) <= FieldsPerGroup
    THEN Head(names) \o Braces(SideBySide(Tail(names)))
    ELSE Grouped(SubSeq(names, 1, FieldsPerGroup))
         \o Grouped(SubSeq(names, FieldsPerGroup + 1, Len(names)))

TextRepeated(n) == Braces(Grouped(SameNames(n)))       \* {a{a a} a{a a} a }
TextDistinct(n) == Braces(Grouped(DistinctNames(n)))   \* {a{b c} d{e f} g }

Spread(name) == <<".", ".", ".">> \o name
FragmentOn(name, body) ==
    KwFragment \o <<" ">> \o name \o <<" ">> \o KwOn \o <<" ", "T">> \o Braces(body)
InlineOn(body) == <<".", ".", ".">> \o KwOn \o <<" ", "T">> \o Braces(body)

\* query { a { ...F } } fragment F on T { b { c } }
TextFragmentSpread ==
    KwQuery \o Braces(<<"a">> \o Braces(Spread(<<"F">>)))
    \o FragmentOn(<<"F">>, <<"b">> \o Braces(<<"c">>))
\* { a { ...F } d { ...F } } fragment F on T { b }
TextSpreadTwice ==
    Braces(<<"a">> \o Braces(Spread(<<"F">>)) \o <<"d">> \o Braces(Spread(<<"F">>)))
    \o FragmentOn(<<"F">>, <<"b">>)
\* { a { ... on T { b { c } } } }
TextInlineFragment ==
    Braces(<<"a">> \o Braces(InlineOn(<<"b">> \o Braces(<<"c">>))))
\* { a { b } c { b } }
TextTwoPaths ==
    Braces(<<"a">> \o Braces(<<"b">>) \o <<"c">> \o Braces(<<"b">>))

\* texts that begin with none of the keywords nor a brace
\* #c\nsubscription{a}
TextCommentSubscription == <<"#", "c", "\n">> \o TextSubscription
\* fragment F on T{a} mutation{a}
TextFragmentFirst == FragmentOn(<<"F">>, <<"a">>) \o <<" ">> \o TextMutation
\* fragment F on T{a}
TextFragmentOnly == FragmentOn(<<"F">>, <<"a">>)
\* }a
TextStray == <<"}", "a">>
\* texts that begin with a keyword and do not parse: mutations, QUERY mutation{a}
TextMutations == KwMutation \o <<"s">>
TextQueryMutation == <<"Q", "U", "E", "R", "Y", " ">> \o TextMutation

\* documents with a mutation or a subscription after a leading query
\* query A{a} mutation B{a}
TextQueryThenMutation ==
    KwQuery \o <<" ", "A">> \o Braces(<<"a">>) \o <<" ">> \o
    KwMutation \o <<" ", "B">> \o Braces(<<"a">>)
\* query A{a} subscription B{a}
TextQueryThenSubscription ==
    KwQuery \o <<" ", "A">> \o Braces(<<"a">>) \o <<" ">> \o
    KwSubscription \o <<" ", "B">> \o Braces(<<"a">>)
\* a mutation no schema of the endpoint knows: mutation{y}
TextMutationUnknown == KwMutation \o Braces(<<"y">>)

\* the optional `operationName` argument: <<>> when absent, <<name>> when given
OptionalOperationNames == {<<>>, << <<"B">> >>}

\* getIntrospectionQuery(): a query on the __schema meta field
IntrospectionQuery ==
    KwQuery \o Braces(<<"_","_","s","c","h","e","m","a">> \o Braces(<<"t">>))

(***************************************************************************)
(* Headers: Record<string, string>, keys compared as JavaScript object     *)
(* keys (case-sensitively).                                                *)
(***************************************************************************)
EmptyHeaders == [k \in {} |-> 0]
Header1(k, v) == [x \in {k} |-> v]
Header2(k1, v1, k2, v2) == [x \in {k1, k2} |-> IF x = k1 THEN v1 ELSE v2]

DefaultHeaderChoices == {Header2("A", "1", "B", "2"), Header1("b", "1")}

\* configured headers that carry credentials: the two spellings the server
\* looks for, another spelling of the same HTTP header, an empty value
AuthorizationHeaderChoices ==
    {EmptyHeaders, Header1("Authorization", "t"), Header1("authorization", "t"),
     Header1("AUTHORIZATION", "t"), Header1("Authorization", "")}

\* the optional defaultApiKey: <<>> when absent, <<key>> when given
OptionalApiKeys == {<<>>, <<"">>, <<"k1">>}
RequestHeaderChoices == {Header1("B", "3"), Header1("b", "3")}
\* the optional `headers` argument: <<>> when absent, <<h>> when given
OptionalHeaders == {<<>>} \cup {<<h>> : h \in RequestHeaderChoices}

(***************************************************************************)
(* The remote endpoint.  A successful request resolves with data; a failed *)
(* one rejects with an error.  "sA" and "sB" are introspection results of  *)
(* two schemas, "d1" is ordinary data, "null" is a missing data member.    *)
(***************************************************************************)
TransportErrors == {"e1", "e2"}
ResponseData    == {"null", "d1", "sA", "sB"}

IsIntrospectionResult(data) == data \in {"sA", "sB"}

\* buildClientSchema(data): the fields the schema knows
SchemaFields(data) ==
    IF data = "sA" THEN {<<"a">>, <<"b">>} ELSE {<<"a">>, <<"x">>}

\* printSchema(buildClientSchema(data)): the SDL text, fields in schema order
printSchema(data) ==
    <<"t", "y", "p", "e", " ", "Q">> \o
    Braces(IF data = "sA" THEN <<"a", " ", "b">> ELSE <<"a", " ", "x">>)

(***************************************************************************)
(* generateSchemaVersion(sdl): the first 8 hexadecimal digits of the md5   *)
(* digest of the SDL text.  The digest is modelled by polynomial checksums *)
(* of the characters, one per digit: like md5 it reads the text and        *)
(* nothing else.                                                           *)
(***************************************************************************)
VersionHexDigits == 8
HexBase == 16

Alphabet == LowerAlpha \o UpperAlpha \o <<" ", "{", "}", "_">>

CharCode(ch) ==
    IF ch \in Range(Alphabet)
    THEN CHOOSE i \in DOMAIN Alphabet : Alphabet[i] = ch
    ELSE 0

\* the i-th hexadecimal digit of the digest
RECURSIVE Digest(_, _, _)
Digest(text, i, h) ==
    IF text = <<>> THEN h
    ELSE Digest(Tail(text), i, (h * (30 + i) + CharCode(Head(text))) % HexBase)

\* createHash('md5').update(sdl).digest('hex').substring(0, 8)
generateSchemaVersion(sdl) == [i \in 1..VersionHexDigits |-> Digest(sdl, i, i)]

\* mutant: the version is taken from the text and the time
SchemaInfoStamped(data, t) ==
    [schema |-> SchemaFields(data), sdl |-> printSchema(data),
     lastUpdated |-> t,
     version |-> [i \in 1..VersionHexDigits |->
                     (generateSchemaVersion(printSchema(data))[i] + t) % HexBase]]

\* the SchemaInfo introspectSchema builds from the response data at time t
SchemaInfo(data, t) ==
    [schema |-> SchemaFields(data), sdl |-> printSchema(data),
     lastUpdated |-> t, version |-> generateSchemaVersion(printSchema(data))]

(***************************************************************************)
(* graphql.validate(schema, document): one error per field the schema does *)
(* not know, in document order.  Meta fields (__schema, __typename) and    *)
(* what is selected beneath them belong to the introspection types.        *)
(***************************************************************************)
IsMetaName(n) == Len(n) >= 2 /\ n[1] = "_" /\ n[2] = "_"

RECURSIVE UnknownFields(_, _)

UnknownInNode(known, n) ==
    IF n.kind = "Field" /\ IsMetaName(n.name) THEN <<>>
    ELSE (IF n.kind = "Field" /\ n.name \notin known THEN <<n.name>> ELSE <<>>)
         \o UnknownFields(known, n.selections)

UnknownFields(known, nodes) ==
    IF nodes = <<>> THEN <<>>
    ELSE UnknownInNode(known, Head(nodes)) \o UnknownFields(known, Tail(nodes))

validate(schemaFields, doc) == UnknownFields(schemaFields, doc.definitions)

(***************************************************************************)
(* State.                                                                  *)
(***************************************************************************)
VARIABLES
    config,      \* McpGraphQLServer.config: the validated McpConfig
    logger,      \* the configuration of the singleton Logger
    configError, \* <<>>, or <<the error>> the last updateConfig threw
    maxRetries,  \* GraphQLClientService.maxRetries
    endpoint,    \* GraphQLClientService.endpoint: url, headers
    client,      \* GraphQLClientService.client: the GraphQLClient's url, headers
    schema,      \* GraphQLClientService.schema: <<>> (null) or <<snapshot>>
    calls,       \* the calls in progress, one record per call slot
    server,      \* "constructed", "starting", "running" or "failed" (start threw)
    now          \* the clock new Date() reads

vars ==
    <<config, logger, configError, maxRetries, endpoint, client, schema, calls,
      server, now>>

\* config.security without allowIntrospection: the defaults of McpConfigSchema
\* and a configuration with the tightest limits
DefaultLimits ==
    [maxDepth |-> 10, maxComplexity |-> 1000,
     rateLimiting |-> [enabled |-> FALSE, windowMs |-> 60000, max |-> 100]]
TightLimits ==
    [maxDepth |-> 1, maxComplexity |-> 1,
     rateLimiting |-> [enabled |-> TRUE, windowMs |-> 60000, max |-> 1]]
LimitChoices == {DefaultLimits, TightLimits}

\* config.security
Security(limits, allowIntrospection) ==
    [maxDepth |-> limits.maxDepth, maxComplexity |-> limits.maxComplexity,
     allowIntrospection |-> allowIntrospection,
     rateLimiting |-> limits.rateLimiting]

\* the defaults of McpConfigSchema for timeout, retries and logging
DefaultTimeout == 30000
DefaultRetries == 3
LogLevels == {"error", "warn", "info", "debug"}
DefaultLogging == [level |-> "info", queries |-> FALSE, performance |-> FALSE]

\* McpConfig: the members the server and the tools read
McpConfig(allowMutations, allowSubscriptions, security, headers, defaultApiKey) ==
    [endpoint |-> "u1", headers |-> headers, defaultApiKey |-> defaultApiKey,
     allowMutations |-> allowMutations, allowSubscriptions |-> allowSubscriptions,
     timeout |-> DefaultTimeout, retries |-> DefaultRetries,
     security |-> security, logging |-> DefaultLogging]

\* a configuration that sets retries
WithRetries(cfg, retries) == [cfg EXCEPT !.retries = retries]

\* configurations without a default API key
Configs ==
    {McpConfig(m, s, Security(l, i), h, <<>>) :
        m \in BOOLEAN, s \in BOOLEAN, l \in LimitChoices, i \in BOOLEAN,
        h \in DefaultHeaderChoices}

\* a JavaScript string is truthy unless it is empty; a missing key reads as
\* undefined
Truthy(headers, key) == key \in DOMAIN headers /\ headers[key] # ""

HasApiKey(cfg) == cfg.defaultApiKey # <<>> /\ cfg.defaultApiKey[1] # ""

\* `Bearer ${this.config.defaultApiKey}`
Bearer(key) == "Bearer " \o key

\* clientHeaders.Authorization = ...: sets the key, other keys are kept
SetHeader(headers, key, value) ==
    [x \in DOMAIN headers \cup {key} |-> IF x = key THEN value ELSE headers[x]]

\* the headers the server hands to the client: the configured ones, with the
\* default API key when neither Authorization nor authorization is set
ClientHeaders(cfg) ==
    IF /\ HasApiKey(cfg)
       /\ ~Truthy(cfg.headers, "Authorization")
       /\ ~Truthy(cfg.headers, "authorization")
    THEN SetHeader(cfg.headers, "Authorization", Bearer(cfg.defaultApiKey[1]))
    ELSE cfg.headers

\* the arguments of a tool call; wellTyped is whether they pass the tool's
\* zod schema
NoArgs ==
    [wellTyped |-> TRUE, query |-> <<>>, dryRun |-> FALSE, headers |-> <<>>,
     validate |-> TRUE, operationName |-> <<>>,
     includeComplexity |-> TRUE, includeDepth |-> TRUE, includeFields |-> TRUE]

\* status: "pending", "returned" or "thrown"
NoOutcome ==
    [status |-> "pending", error |-> "none", data |-> "null", dryRun |-> FALSE,
     errors |-> <<>>, originalError |-> "null", statedAttempts |-> 0]

Returned(data, dry) ==
    [NoOutcome EXCEPT !.status = "returned", !.data = data, !.dryRun = dry]

Thrown(kind, errs, original, stated) ==
    [NoOutcome EXCEPT !.status = "thrown", !.error = kind, !.errors = errs,
                      !.originalError = original, !.statedAttempts = stated]

\* pc: "idle", "request" (awaiting client.request), "sleep" (awaiting the
\* backoff timer), "done" (the promise is settled).
\* attempt, lastError and headers are the locals of executeQuery.
\* requests, resolved, thrown and backoff record what the call did: the
\* requests it dispatched, the data and the errors its attempts ended with,
\* the seconds of each backoff.
\* exec is how executeQuery settled ("pending" while it has not, or was never
\* called); outcome is how the tool call settled.
\* operationName is the local of graphql-request's request(): the operation
\* name it reads off the document.
\* validated records whether executeQuery called validate(); cached is the
\* snapshot that was cached when the call began; overlaps is the calls that
\* were in a backoff sleep when the call began, with their attempt numbers.
\* result is what the tool handler returned (<<>> when nothing), response
\* what the call handler of the server answered (<<>> while it has not).
IdleCall ==
    [pc |-> "idle", tool |-> "none", args |-> NoArgs,
     attempt |-> 0, lastError |-> "null", headers |-> EmptyHeaders,
     operationName |-> <<>>,
     requests |-> <<>>, resolved |-> <<>>, thrown |-> <<>>, backoff |-> <<>>,
     validated |-> FALSE, cached |-> <<>>, overlaps |-> {},
     exec |-> NoOutcome, outcome |-> NoOutcome,
     result |-> <<>>, response |-> <<>>]

\* the LoggerConfig the server derives from config.logging
LoggerConfig(cfg) ==
    [level |-> cfg.logging.level, enableQueries |-> cfg.logging.queries,
     enablePerformance |-> cfg.logging.performance]

\* the GraphQLEndpoint the server derives from its configuration
EndpointOf(cfg) ==
    [url |-> cfg.endpoint, headers |-> ClientHeaders(cfg), timeout |-> cfg.timeout]

\* new GraphQLClient(endpoint.url, { headers: endpoint.headers })
GraphQLClient(e) == [url |-> e.url, headers |-> e.headers]

\* the constructor of the server: createLogger, then
\* new GraphQLClientService({url, headers, timeout}, retries); slots are the
\* calls the host may have in progress
ConstructedFor(cfg, slots) ==
    /\ config = cfg
    /\ logger = LoggerConfig(cfg)
    /\ configError = <<>>
    /\ maxRetries = cfg.retries
    /\ endpoint = EndpointOf(cfg)
    /\ client = GraphQLClient(EndpointOf(cfg))
    /\ schema = <<>>
    /\ calls = [c \in slots |-> IdleCall]
    /\ server = "constructed"
    /\ now = 0

Constructed(cfg) == ConstructedFor(cfg, Calls)

Init ==
    \E cfg \in Configs, retries \in RetriesValues :
        Constructed(WithRetries(cfg, retries))

(***************************************************************************)
(* detectOperationType (tools/query-graphql.ts)                            *)
(***************************************************************************)
\* doc.definitions.find(def => def.kind === 'OperationDefinition')
RECURSIVE FirstOperation(_)
FirstOperation(defs) ==
    IF defs = <<>> THEN <<>>
    ELSE IF Head(defs).kind = "OperationDefinition" THEN <<Head(defs)>>
    ELSE FirstOperation(Tail(defs))

\* operationDef?.operation || 'query'
OperationOrQuery(doc, op) ==
    IF doc.ok /\ op # <<>> THEN op[1].operation ELSE "query"

\* a fallback that does not look at the document
DetectWithoutParsing(doc) == "query"

\* the try block: parse(query), then the first operation definition
DetectByParsing(doc) == OperationOrQuery(doc, FirstOperation(doc.definitions))

\* mutant: the mutation prefix is not recognised
DetectFromSkipsMutation(trimmedQuery, query) ==
    IF startsWith(trimmedQuery, KwSubscription) THEN "subscription" ELSE "query"

DetectFrom(trimmedQuery, query) ==
    IF startsWith(trimmedQuery, KwMutation) THEN "mutation"
    ELSE IF startsWith(trimmedQuery, KwSubscription) THEN "subscription"
    ELSE IF startsWith(trimmedQuery, KwQuery) \/ startsWith(trimmedQuery, BraceL)
         THEN "query"
    ELSE DetectByParsing(parse(query))

detectOperationType(query) == DetectFrom(toLowerCase(trim(query)), query)

\* the operation-type policy of handleQueryGraphQL: a plain Error
PolicyRejects(operationType, allowMutations, allowSubscriptions) ==
    \/ operationType = "mutation" /\ ~allowMutations
    \/ operationType = "subscription" /\ ~allowSubscriptions

(***************************************************************************)
(* executeQuery (services/graphql-client.ts)                               *)
(***************************************************************************)
\* mutant: the spread order is reversed, defaults win
MergeHeadersDefaultsWin(defaults, given) ==
    LET req == IF given = <<>> THEN EmptyHeaders ELSE given[1]
    IN  [k \in DOMAIN defaults \cup DOMAIN req |->
            IF k \in DOMAIN defaults THEN defaults[k] ELSE req[k]]

\* { ...this.endpoint.headers, ...(queryInfo.headers || {}) }
MergeHeaders(defaults, given) ==
    LET req == IF given = <<>> THEN EmptyHeaders ELSE given[1]
    IN  [k \in DOMAIN defaults \cup DOMAIN req |->
            IF k \in DOMAIN req THEN req[k] ELSE defaults[k]]

\* mutant: the loop bound excludes the last attempt
LoopContinuesStrict(attempt) == attempt < maxRetries

\* for (let attempt = 0; attempt <= this.maxRetries; attempt++)
LoopContinues(attempt) == attempt <= maxRetries

\* if (attempt < this.maxRetries)
SleepsAfter(attempt) == attempt < maxRetries

\* mutant: the arguments of Math.pow swapped
BackoffSquared(attempt) == attempt ^ 2

\* Math.pow(2, attempt) * 1000 milliseconds, in seconds
BackoffSeconds(attempt) == 2 ^ attempt

\* mutant: only the first error is kept
KeepFirstError(previous, error) == IF previous = "null" THEN error ELSE previous

\* lastError = error as Error
NextLastError(previous, error) == error

\* `Query execution failed after ${this.maxRetries + 1} attempts`
StatedAttempts == maxRetries + 1

\* executeQuery returns or throws
Settle(k, outcome) == [k EXCEPT !.pc = "done", !.exec = outcome]

IsOperationDefinition(def) == def.kind = "OperationDefinition"

\* the name of the only operation of a document, <<>> when it has none
NameOfOnly(operations) ==
    IF Len(operations) = 1 /\ operations[1].name # <<>>
    THEN <<operations[1].name>>
    ELSE <<>>

\* graphql-request, request(document, variables, requestHeaders): the
\* operationName it sends is the name of the document's operation when the
\* document has exactly one operation definition, and is absent otherwise
ExtractOperationName(doc) ==
    NameOfOnly(SelectSeq(doc.definitions, IsOperationDefinition))

\* a loop that validates the query against the snapshot of the moment before
\* every attempt
DispatchRevalidating(k) ==
    IF /\ k.tool = "query-graphql"
       /\ schema # <<>>
       /\ validate(schema[1].schema, parse(k.args.query)) # <<>>
    THEN Settle(k, Thrown("ValidationError",
                          validate(schema[1].schema, parse(k.args.query)), "null", 0))
    ELSE [k EXCEPT !.pc = "request",
                   !.requests = Append(@, [url |-> client.url,
                                           clientHeaders |-> client.headers,
                                           headers |-> k.headers,
                                           operationName |-> k.operationName])]

\* await this.client.request(queryDoc, queryInfo.variables, headers)
Dispatch(k) ==
    [k EXCEPT !.pc = "request",
              !.requests = Append(@, [url |-> client.url,
                                      clientHeaders |-> client.headers,
                                      headers |-> k.headers,
                                      operationName |-> k.operationName])]

\* the headers a dispatched request goes out with: those the GraphQLClient
\* was constructed with, overlaid with the ones passed to request()
EffectiveHeaders(request) ==
    [k \in DOMAIN request.clientHeaders \cup DOMAIN request.headers |->
        IF k \in DOMAIN request.headers THEN request.headers[k]
        ELSE request.clientHeaders[k]]

\* the head of the retry loop, and the NetworkError after it
RetryLoop(k) ==
    IF LoopContinues(k.attempt)
    THEN Dispatch(k)
    ELSE Settle(k, Thrown("NetworkError", <<>>, k.lastError, StatedAttempts))

\* mutant: the document is never validated
NoValidation(doc) == <<>>

\* mutant: only the first validation error is reported
FirstValidationError(doc) ==
    IF schema # <<>> /\ validate(schema[1].schema, doc) # <<>>
    THEN <<Head(validate(schema[1].schema, doc))>>
    ELSE <<>>

\* if (this.schema) validate(this.schema.schema, queryDoc)
ValidationErrors(doc) ==
    IF schema # <<>> THEN validate(schema[1].schema, doc) ELSE <<>>

\* mutant: the dry-run flag is ignored
DryRunIgnored(dryRun) == FALSE

\* if (dryRun) return { data: null, extensions: { dryRun: true, ... } }
DryRunReturns(dryRun) == dryRun

\* executeQuery after parse(queryInfo.query), to its first await
ExecuteParsed(k, queryDoc, errors, headers, dryRun) ==
    IF ~queryDoc.ok
    THEN \* parse threw a GraphQLError; the outer catch wraps it
         Settle(k, Thrown("QueryError", <<>>, "GraphQLError", 0))
    ELSE IF errors # <<>>
    THEN Settle(k, Thrown("ValidationError", errors, "null", 0))
    ELSE IF DryRunReturns(dryRun)
    THEN Settle(k, Returned("null", TRUE))
    ELSE RetryLoop([k EXCEPT !.headers = MergeHeaders(endpoint.headers, headers),
                             !.operationName = ExtractOperationName(queryDoc),
                             !.attempt = 0,
                             !.lastError = "null"])

\* if (this.schema): validate() is called on every document that parsed
\* while a snapshot is cached
ValidateCalled(queryDoc) == queryDoc.ok /\ schema # <<>>

ExecuteDocument(k, queryDoc, headers, dryRun) ==
    ExecuteParsed([k EXCEPT !.validated = ValidateCalled(queryDoc)],
                  queryDoc, ValidationErrors(queryDoc), headers, dryRun)

\* executeQuery from its first line to its first await
ExecuteQuery(k, query, headers, dryRun) ==
    ExecuteDocument(k, parse(query), headers, dryRun)

\* mutant: the return is missing, the loop goes on after a success
RequestResolvedNoReturn(k, data) == RetryLoop([k EXCEPT !.attempt = @ + 1])

\* client.request resolved with `data`: return { data: result, ... }
RequestResolved(k, data) == Settle(k, Returned(data, FALSE))

\* the attempt in flight ended with `data`
Resolved(k, data) == [k EXCEPT !.resolved = Append(@, data)]

\* client.request rejected with `error`: the catch block, then attempt++
AfterCatch(k1) ==
    IF SleepsAfter(k1.attempt)
    THEN [k1 EXCEPT !.pc = "sleep",
                    !.backoff = Append(@, BackoffSeconds(k1.attempt))]
    ELSE RetryLoop([k1 EXCEPT !.attempt = @ + 1])

RequestRejected(k, error) ==
    AfterCatch([k EXCEPT !.lastError = NextLastError(k.lastError, error),
                         !.thrown = Append(@, error)])

\* a backoff promise that is never resolved
TimerNeverResumes(k) == k

\* the backoff timer fired: attempt++ and the loop head
TimerFired(k) == RetryLoop([k EXCEPT !.attempt = @ + 1])

(***************************************************************************)
(* introspectSchema (services/graphql-client.ts)                           *)
(***************************************************************************)
\* the calls that run introspectSchema: the introspect-schema tool and start()
IntrospectionTools == {"introspect-schema", "start"}

\* mutant: introspectSchema lets the error of executeQuery through
IntrospectOutcomeRethrows(o) ==
    IF o.status = "thrown" THEN o
    ELSE IF o.data = "null" \/ ~IsIntrospectionResult(o.data)
    THEN Thrown("SchemaError", <<>>, "null", 0)
    ELSE Returned(o.data, FALSE)

\* what introspectSchema makes of a settled executeQuery
IntrospectOutcome(o) ==
    IF o.status = "thrown"
    THEN Thrown("SchemaError", <<>>, o.error, 0)
    ELSE IF o.data = "null"
    THEN Thrown("SchemaError", <<>>, "null", 0)
    ELSE IF ~IsIntrospectionResult(o.data)
    THEN \* buildClientSchema throws; the catch wraps it
         Thrown("SchemaError", <<>>, "Error", 0)
    ELSE Returned(o.data, FALSE)

\* what the tool handler returns to the call handler
\* handleIntrospectSchema: the SchemaIntrospectionResult of the new snapshot
IntrospectionResult(info) ==
    [schema |-> info.sdl, version |-> info.version, lastUpdated |-> info.lastUpdated]

\* handleQueryGraphQL: the QueryResult of executeQuery
QueryResult(o) == [data |-> o.data, dryRun |-> o.dryRun]

ResultOf(tool, o) ==
    IF o.status # "returned" THEN <<>>
    ELSE IF tool = "introspect-schema"
    THEN <<IntrospectionResult(SchemaInfo(o.data, now))>>
    ELSE IF tool = "query-graphql" THEN <<QueryResult(o)>>
    ELSE <<>>

\* the outcome of the call, given the outcome of its executeQuery
Outcome(k, o) == [k EXCEPT !.outcome = o, !.result = ResultOf(k.tool, o)]

\* the call settles when its executeQuery does: introspectSchema turns the
\* result into a snapshot or a SchemaError, handleQueryGraphQL passes it on
Finish(k) ==
    IF k.pc # "done" THEN k
    ELSE IF k.tool \in IntrospectionTools
    THEN Outcome(k, IntrospectOutcome(k.exec))
    ELSE Outcome(k, k.exec)

\* mutant: a failed introspection drops the snapshot
SchemaDroppedOnFailure(k) ==
    IF k.pc = "done" /\ k.tool \in IntrospectionTools
    THEN IF k.outcome.status = "returned"
         THEN << SchemaInfo(k.outcome.data, now) >>
         ELSE <<>>
    ELSE schema

\* a snapshot, once stored, is kept: later introspections do not replace it
SchemaAfterKeepsFirst(k) ==
    IF /\ k.pc = "done" /\ k.tool \in IntrospectionTools
       /\ k.outcome.status = "returned" /\ schema = <<>>
    THEN << SchemaInfo(k.outcome.data, now) >>
    ELSE schema

\* this.schema = schemaInfo, on a successful introspection
SchemaAfter(k) ==
    IF k.pc = "done" /\ k.tool \in IntrospectionTools /\ k.outcome.status = "returned"
    THEN << SchemaInfo(k.outcome.data, now) >>
    ELSE schema

\* introspectSchema(requestHeaders), to its first await
introspectSchema(k, requestHeaders) ==
    Finish(ExecuteQuery(k, IntrospectionQuery, requestHeaders, FALSE))

(***************************************************************************)
(* analyzeQuery (services/graphql-client.ts)                               *)
(***************************************************************************)
\* getOperationType: the operation of the first operation definition
OperationOrUnknown(op) == IF op # <<>> THEN op[1].operation ELSE "unknown"

getOperationType(doc) == OperationOrUnknown(FirstOperation(doc.definitions))

\* calculateComplexity: the Field nodes under the operation definitions; the
\* visit descends into every selection that has a selection set
RECURSIVE CountFields(_)
CountFields(nodes) ==
    IF nodes = <<>> THEN 0
    ELSE (IF Head(nodes).kind = "Field" THEN 1 ELSE 0)
         + CountFields(Head(nodes).selections)
         + CountFields(Tail(nodes))

RECURSIVE ComplexityOf(_)
ComplexityOf(defs) ==
    IF defs = <<>> THEN 0
    ELSE (IF IsOperationDefinition(Head(defs))
          THEN CountFields(Head(defs).selections) ELSE 0)
         + ComplexityOf(Tail(defs))

calculateComplexity(doc) == ComplexityOf(doc.definitions)

Max(a, b) == IF a >= b THEN a ELSE b

\* calculateDepth: the visit descends through Field selections only
RECURSIVE DeepestField(_, _)
DeepestField(nodes, depth) ==
    IF nodes = <<>> THEN 0
    ELSE Max(IF Head(nodes).kind = "Field"
             THEN Max(depth, DeepestField(Head(nodes).selections, depth + 1))
             ELSE 0,
             DeepestField(Tail(nodes), depth))

RECURSIVE DepthOf(_)
DepthOf(defs) ==
    IF defs = <<>> THEN 0
    ELSE Max(IF IsOperationDefinition(Head(defs))
             THEN DeepestField(Head(defs).selections, 1) ELSE 0,
             DepthOf(Tail(defs)))

\* a depth that counts a top-level field as level 0
DepthFromZero(doc) == Max(0, DepthOf(doc.definitions) - 1)

calculateDepth(doc) == DepthOf(doc.definitions)

\* extractFields: the names of the Field nodes in visiting order
RECURSIVE FieldNames(_)
FieldNames(nodes) ==
    IF nodes = <<>> THEN <<>>
    ELSE (IF Head(nodes).kind = "Field" THEN <<Head(nodes).name>> ELSE <<>>)
         \o FieldNames(Head(nodes).selections)
         \o FieldNames(Tail(nodes))

RECURSIVE FieldsOf(_)
FieldsOf(defs) ==
    IF defs = <<>> THEN <<>>
    ELSE (IF IsOperationDefinition(Head(defs))
          THEN FieldNames(Head(defs).selections) ELSE <<>>)
         \o FieldsOf(Tail(defs))

\* [...new Set(fields)]: each name once, at its first position
RECURSIVE Unique(_, _)
Unique(names, seen) ==
    IF names = <<>> THEN <<>>
    ELSE IF Head(names) \in seen THEN Unique(Tail(names), seen)
    ELSE <<Head(names)>> \o Unique(Tail(names), seen \cup {Head(names)})

\* the names as they were pushed, without new Set
extractFieldsKeepsDuplicates(doc) == FieldsOf(doc.definitions)

extractFields(doc) == Unique(FieldsOf(doc.definitions), {})

\* extractFragments: the names of the fragment definitions
RECURSIVE FragmentNames(_)
FragmentNames(defs) ==
    IF defs = <<>> THEN <<>>
    ELSE (IF Head(defs).kind = "FragmentDefinition" THEN <<Head(defs).name>> ELSE <<>>)
         \o FragmentNames(Tail(defs))

extractFragments(doc) == FragmentNames(doc.definitions)

\* the analysis analyzeQuery returns for a document that parsed
Analysis(doc) ==
    [operation |-> getOperationType(doc),
     complexity |-> calculateComplexity(doc),
     depth |-> calculateDepth(doc),
     fields |-> extractFields(doc),
     fragments |-> extractFragments(doc)]

(***************************************************************************)
(* handleAnalyzeQuery (tools/analyze-query.ts)                             *)
(***************************************************************************)
ComplexityWarningAbove == 100
DepthWarningAbove == 10
FieldsWarningAbove == 50

\* warnings that start at the thresholds themselves
WarningsFromThreshold(analysis) ==
    (IF analysis.complexity >= ComplexityWarningAbove
     THEN <<"High query complexity">> ELSE <<>>)
    \o (IF analysis.depth >= DepthWarningAbove
        THEN <<"Deep query nesting">> ELSE <<>>)
    \o (IF Len(analysis.fields) >= FieldsWarningAbove
        THEN <<"Large number of fields">> ELSE <<>>)

\* the warnings pushed for an analysis, in order
Warnings(analysis) ==
    (IF analysis.complexity > ComplexityWarningAbove
     THEN <<"High query complexity">> ELSE <<>>)
    \o (IF analysis.depth > DepthWarningAbove
        THEN <<"Deep query nesting">> ELSE <<>>)
    \o (IF Len(analysis.fields) > FieldsWarningAbove
        THEN <<"Large number of fields">> ELSE <<>>)

\* the QueryAnalysisResult: a member the caller did not ask for is <<>>
AnalysisResult(args, analysis) ==
    [operation |-> analysis.operation,
     complexity |-> IF args.includeComplexity THEN <<analysis.complexity>> ELSE <<>>,
     depth |-> IF args.includeDepth THEN <<analysis.depth>> ELSE <<>>,
     fields |-> IF args.includeFields THEN <<analysis.fields>> ELSE <<>>,
     fragments |-> IF args.includeFields THEN <<analysis.fragments>> ELSE <<>>,
     warnings |-> Warnings(analysis),
     errors |-> <<>>]

\* the tool handler is over without having called executeQuery
Refuse(k, outcome) == [k EXCEPT !.pc = "done", !.outcome = outcome]

Analyzed(k, doc) ==
    IF ~doc.ok
    THEN \* analyzeQuery wraps the syntax error
         Refuse(k, Thrown("ValidationError", <<>>, "GraphQLError", 0))
    ELSE [k EXCEPT !.pc = "done",
                   !.outcome = Returned("null", FALSE),
                   !.result = <<AnalysisResult(k.args, Analysis(doc))>>]

\* handleAnalyzeQuery(args, client)
HandleAnalyzeQuery(k) ==
    IF ~k.args.wellTyped
    THEN Refuse(k, Thrown("ZodError", <<>>, "null", 0))
    ELSE Analyzed(k, parse(k.args.query))

(***************************************************************************)
(* handleQueryGraphQL, handleIntrospectSchema                              *)
(***************************************************************************)
\* a handler that serves a dry run before it applies the policy
HandleQueryGraphQLDryRunFirst(k, allowMutations, allowSubscriptions) ==
    IF ~k.args.wellTyped
    THEN Refuse(k, Thrown("ZodError", <<>>, "null", 0))
    ELSE IF /\ ~k.args.dryRun
            /\ PolicyRejects(detectOperationType(k.args.query),
                             allowMutations, allowSubscriptions)
    THEN Refuse(k, Thrown("Error", <<>>, "null", 0))
    ELSE Finish(ExecuteQuery(k, k.args.query, k.args.headers, k.args.dryRun))

\* handleQueryGraphQL(args, client, allowMutations, allowSubscriptions)
HandleQueryGraphQL(k, allowMutations, allowSubscriptions) ==
    IF ~k.args.wellTyped
    THEN Refuse(k, Thrown("ZodError", <<>>, "null", 0))
    ELSE IF PolicyRejects(detectOperationType(k.args.query),
                          allowMutations, allowSubscriptions)
    THEN Refuse(k, Thrown("Error", <<>>, "null", 0))
    ELSE Finish(ExecuteQuery(k, k.args.query, k.args.headers, k.args.dryRun))

\* handleIntrospectSchema(args, client)
HandleIntrospectSchema(k) ==
    IF ~k.args.wellTyped
    THEN Refuse(k, Thrown("ZodError", <<>>, "null", 0))
    ELSE introspectSchema(k, k.args.headers)

(***************************************************************************)
(* The call handler of the server (server.ts)                              *)
(***************************************************************************)
ToolNames == {"introspect-schema", "query-graphql", "analyze-query"}
UnknownToolNames == {"build-query"}

\* error.message, as a sequence of its parts
\* an error executeQuery threw
ExecMessage(o) ==
    IF o.error = "ValidationError" THEN <<"Query validation failed">>
    ELSE IF o.error = "NetworkError"
    THEN <<"Query execution failed after ", ToString(o.statedAttempts), " attempts">>
    ELSE <<"Query execution failed: ", "Syntax Error">>

PolicyMessage(operationType) ==
    IF operationType = "mutation"
    THEN <<"Mutations are disabled. Set allowMutations to true to enable them.">>
    ELSE <<"Subscriptions are disabled. Set allowSubscriptions to true to enable them.">>

\* an error introspectSchema threw
SchemaMessage(o) ==
    IF o.status = "thrown"
    THEN <<"Schema introspection failed: ">> \o ExecMessage(o)
    ELSE IF o.data = "null" THEN <<"Failed to introspect schema">>
    ELSE <<"Schema introspection failed: ", "Invalid or incomplete introspection result">>

\* the message of the error the call ended with
MessageOf(k) ==
    IF k.tool \notin ToolNames THEN <<"Unknown tool: ", k.tool>>
    ELSE IF k.outcome.error = "ZodError" THEN <<"ZodError">>
    ELSE IF k.outcome.error = "Error"
    THEN PolicyMessage(detectOperationType(k.args.query))
    ELSE IF k.outcome.error = "SchemaError" THEN SchemaMessage(k.exec)
    ELSE IF k.tool = "analyze-query"
    THEN <<"Query analysis failed: ", "Syntax Error">>
    ELSE ExecMessage(k.exec)

\* the catch block: { error, tool, args } with isError
ErrorResponse(k) ==
    [isError |-> TRUE,
     payload |-> [error |-> MessageOf(k), tool |-> k.tool, args |-> k.args]]

\* the return of a case of the switch: the result, not marked as an error
ResultResponse(k) == [isError |-> FALSE, payload |-> k.result[1]]

\* mutant: a query deeper than security.maxDepth is rejected
CallToolWithinDepth(cfg, k) ==
    IF k.tool = "introspect-schema" THEN HandleIntrospectSchema(k)
    ELSE IF k.tool = "query-graphql"
    THEN IF /\ k.args.wellTyped
            /\ calculateDepth(parse(k.args.query)) > cfg.security.maxDepth
         THEN Refuse(k, Thrown("Error", <<>>, "null", 0))
         ELSE HandleQueryGraphQL(k, cfg.allowMutations, cfg.allowSubscriptions)
    ELSE IF k.tool = "analyze-query" THEN HandleAnalyzeQuery(k)
    ELSE Refuse(k, Thrown("Error", <<>>, "null", 0))

\* the switch on the tool name, under the server configuration cfg
CallTool(cfg, k) ==
    IF k.tool = "introspect-schema" THEN HandleIntrospectSchema(k)
    ELSE IF k.tool = "query-graphql"
    THEN HandleQueryGraphQL(k, cfg.allowMutations, cfg.allowSubscriptions)
    ELSE IF k.tool = "analyze-query" THEN HandleAnalyzeQuery(k)
    ELSE \* default: throw new Error(`Unknown tool: ${name}`)
         Refuse(k, Thrown("Error", <<>>, "null", 0))

\* the call handler answers when the tool handler is over
CallToolResponse(k) ==
    IF k.outcome.status = "thrown" THEN ErrorResponse(k) ELSE ResultResponse(k)

\* mutant: no catch block, the error of a failed call leaves the handler
RespondToSuccessOnly(k) ==
    IF k.pc = "done" /\ k.tool # "start" /\ k.outcome.status = "returned"
    THEN [k EXCEPT !.response = <<ResultResponse(k)>>]
    ELSE k

\* start() is not a tool call: what introspectSchema throws, start rethrows
Respond(k) ==
    IF k.pc = "done" /\ k.tool # "start"
    THEN [k EXCEPT !.response = <<CallToolResponse(k)>>]
    ELSE k

\* start(): running once the introspection is over, failed when it threw
ServerAfter(k) ==
    IF k.tool # "start" THEN server
    ELSE IF k.pc # "done" THEN "starting"
    ELSE IF k.outcome.status = "returned" THEN "running"
    ELSE "failed"

(***************************************************************************)
(* Actions.                                                                *)
(***************************************************************************)
\* The host awaits each tool call before sending the next one.
OneAtATime(c) == \A d \in DOMAIN calls \ {c} : calls[d].pc = "idle"

\* the call's next state, with the snapshot a finished introspection stores
Commit(c, k) ==
    /\ calls' = [calls EXCEPT ![c] = Respond(k)]
    /\ schema' = SchemaAfter(k)
    /\ server' = ServerAfter(k)

\* a call that begins now
Sleepers ==
    {[call |-> d, attempt |-> calls[d].attempt] :
        d \in {e \in DOMAIN calls : calls[e].pc = "sleep"}}

NewCall(tool, args) ==
    [IdleCall EXCEPT !.tool = tool, !.args = args, !.cached = schema,
                     !.overlaps = Sleepers]

\* arguments the tool's zod schema rejects
BadArgs == [NoArgs EXCEPT !.wellTyped = FALSE]

\* validate = false and operationName are given without per-request headers
QueryGraphQLArgs ==
    {BadArgs}
    \cup {[NoArgs EXCEPT !.query = q, !.dryRun = d, !.headers = h] :
            q \in QueryTexts, d \in BOOLEAN, h \in OptionalHeaders}
    \cup {[NoArgs EXCEPT !.query = q, !.dryRun = d, !.validate = FALSE] :
            q \in QueryTexts, d \in BOOLEAN}
    \cup {[NoArgs EXCEPT !.query = q, !.operationName = n] :
            q \in QueryTexts, n \in OptionalOperationNames}

IntrospectSchemaArgs ==
    {BadArgs} \cup {[NoArgs EXCEPT !.headers = h] : h \in OptionalHeaders}

AnalyzeQueryArgs ==
    {BadArgs} \cup
    {[NoArgs EXCEPT !.query = q, !.includeComplexity = i, !.includeDepth = i,
                    !.includeFields = i] :
        q \in QueryTexts, i \in BOOLEAN}

\* start(): introspects when security.allowIntrospection is set, then connects
Start(c) ==
    /\ server = "constructed"
    /\ calls[c].pc = "idle"
    /\ IF config.security.allowIntrospection
       THEN Commit(c, introspectSchema(NewCall("start", NoArgs), <<>>))
       ELSE /\ server' = "running"
            /\ UNCHANGED <<calls, schema>>
    /\ UNCHANGED <<config, logger, configError, maxRetries, endpoint, client, now>>

\* an executeQuery that merges the per-request headers into the endpoint's
\* own headers object (Object.assign) instead of into a new one
QueryGraphQLKeepsHeaders(c, argSet) ==
    /\ server = "running"
    /\ calls[c].pc = "idle"
    /\ \E a \in argSet :
          /\ Commit(c, CallTool(config, NewCall("query-graphql", a)))
          /\ endpoint' = [endpoint EXCEPT !.headers = MergeHeaders(@, a.headers)]
    /\ UNCHANGED <<config, logger, configError, maxRetries, client, now>>

\* case 'query-graphql', with arguments drawn from argSet
QueryGraphQLWith(c, argSet) ==
    /\ server = "running"
    /\ calls[c].pc = "idle"
    /\ \E a \in argSet :
          Commit(c, CallTool(config, NewCall("query-graphql", a)))
    /\ UNCHANGED <<config, logger, configError, maxRetries, endpoint, client, now>>

QueryGraphQL(c) == QueryGraphQLWith(c, QueryGraphQLArgs)

\* case 'introspect-schema', with arguments drawn from argSet
IntrospectSchemaWith(c, argSet) ==
    /\ server = "running"
    /\ calls[c].pc = "idle"
    /\ \E a \in argSet :
          Commit(c, CallTool(config, NewCall("introspect-schema", a)))
    /\ UNCHANGED <<config, logger, configError, maxRetries, endpoint, client, now>>

IntrospectSchema(c) == IntrospectSchemaWith(c, IntrospectSchemaArgs)

\* case 'analyze-query', with arguments drawn from argSet
AnalyzeQueryWith(c, argSet) ==
    /\ server = "running"
    /\ calls[c].pc = "idle"
    /\ \E a \in argSet :
          Commit(c, CallTool(config, NewCall("analyze-query", a)))
    /\ UNCHANGED <<config, logger, configError, maxRetries, endpoint, client, now>>

AnalyzeQuery(c) == AnalyzeQueryWith(c, AnalyzeQueryArgs)

\* default: throw new Error(`Unknown tool: ${name}`)
UnknownTool(c) ==
    /\ server = "running"
    /\ calls[c].pc = "idle"
    /\ \E name \in UnknownToolNames, a \in {NoArgs, BadArgs} :
          Commit(c, CallTool(config, NewCall(name, a)))
    /\ UNCHANGED <<config, logger, configError, maxRetries, endpoint, client, now>>

\* the endpoint answers the request in flight
Resolve(c) ==
    /\ calls[c].pc = "request"
    /\ \E data \in ResponseData :
          Commit(c, Finish(RequestResolved(Resolved(calls[c], data), data)))
    /\ UNCHANGED <<config, logger, configError, maxRetries, endpoint, client, now>>

\* the request in flight fails (transport, HTTP status or GraphQL errors)
Reject(c) ==
    /\ calls[c].pc = "request"
    /\ \E error \in TransportErrors :
          Commit(c, Finish(RequestRejected(calls[c], error)))
    /\ UNCHANGED <<config, logger, configError, maxRetries, endpoint, client, now>>

\* one timer for all calls: when it fires, every sleeping call resumes
WakeEverySleeper(c) ==
    /\ calls[c].pc = "sleep"
    /\ calls' = [d \in DOMAIN calls |->
                    IF calls[d].pc = "sleep"
                    THEN Respond(Finish(TimerFired(calls[d]))) ELSE calls[d]]
    /\ UNCHANGED <<config, logger, configError, maxRetries, endpoint, client, schema,
                   server, now>>

\* setTimeout resolves the backoff promise
Wake(c) ==
    /\ calls[c].pc = "sleep"
    /\ Commit(c, Finish(TimerFired(calls[c])))
    /\ UNCHANGED <<config, logger, configError, maxRetries, endpoint, client, now>>

\* the caller has its answer; the slot is free for the next call
Deliver(c) ==
    /\ calls[c].pc = "done"
    /\ server # "failed"
    /\ calls' = [calls EXCEPT ![c] = IdleCall]
    /\ UNCHANGED <<config, logger, configError, maxRetries, endpoint, client, schema,
                   server, now>>

\* Partial<McpConfig>: each member is <<>> when absent, <<value>> when given
NoNewConfig ==
    [endpoint |-> <<>>, headers |-> <<>>, defaultApiKey |-> <<>>,
     timeout |-> <<>>, retries |-> <<>>, logging |-> <<>>]

\* one member at a time, or headers together with a key
NewConfigs ==
    {[NoNewConfig EXCEPT !.endpoint = <<u>>] : u \in {"u2", "not a url"}}
    \cup {[NoNewConfig EXCEPT !.headers = <<h>>] : h \in AuthorizationHeaderChoices}
    \cup {[NoNewConfig EXCEPT !.defaultApiKey = key] : key \in OptionalApiKeys}
    \cup {[NoNewConfig EXCEPT !.headers = <<h>>, !.defaultApiKey = <<"k1">>] :
             h \in AuthorizationHeaderChoices}

\* z.string().url()
IsUrl(text) == text \in {"u1", "u2"}

\* the logging member as the caller writes it: each member <<>> when absent
NoLogging == [level |-> <<>>, queries |-> <<>>, performance |-> <<>>]

\* the logging object of McpConfigSchema: absent members get their defaults
ParseLogging(given) ==
    [level |-> IF given.level = <<>> THEN DefaultLogging.level ELSE given.level[1],
     queries |-> IF given.queries = <<>> THEN DefaultLogging.queries
                 ELSE given.queries[1],
     performance |-> IF given.performance = <<>> THEN DefaultLogging.performance
                     ELSE given.performance[1]]

\* { ...this.config, ...newConfig }: a member of newConfig replaces the
\* member of the configuration as a whole
SpreadConfig(cfg, newConfig) ==
    [cfg EXCEPT
        !.endpoint = IF newConfig.endpoint = <<>> THEN @ ELSE newConfig.endpoint[1],
        !.headers = IF newConfig.headers = <<>> THEN @ ELSE newConfig.headers[1],
        !.defaultApiKey = IF newConfig.defaultApiKey = <<>> THEN @
                          ELSE newConfig.defaultApiKey,
        !.timeout = IF newConfig.timeout = <<>> THEN @ ELSE newConfig.timeout[1],
        !.retries = IF newConfig.retries = <<>> THEN @ ELSE newConfig.retries[1],
        !.logging = IF newConfig.logging = <<>> THEN @
                    ELSE ParseLogging(newConfig.logging[1])]

\* McpConfigSchema.parse accepts the object: endpoint is a URL, logging.level
\* one of the enum's values
SchemaAccepts(cfg) == IsUrl(cfg.endpoint) /\ cfg.logging.level \in LogLevels

\* newConfig.endpoint || newConfig.headers || newConfig.timeout ||
\* newConfig.defaultApiKey: an object is truthy, a string unless it is empty,
\* a number unless it is 0
TouchesClient(newConfig) ==
    \/ newConfig.endpoint # <<>> /\ newConfig.endpoint[1] # ""
    \/ newConfig.headers # <<>>
    \/ newConfig.timeout # <<>> /\ newConfig.timeout[1] # 0
    \/ newConfig.defaultApiKey # <<>> /\ newConfig.defaultApiKey[1] # ""

\* the body of updateConfig after McpConfigSchema.parse returned `parsed`:
\* logger.updateConfig when newConfig.logging is given, client.updateEndpoint
\* (the endpoint and a new GraphQLClient) under the guard of line 207;
\* maxRetries is assigned nowhere
Reconfigured(parsed, newConfig) ==
    /\ config' = parsed
    /\ logger' = IF newConfig.logging # <<>> THEN LoggerConfig(parsed) ELSE logger
    /\ endpoint' = IF TouchesClient(newConfig) THEN EndpointOf(parsed) ELSE endpoint
    /\ client' = IF TouchesClient(newConfig) THEN GraphQLClient(EndpointOf(parsed))
                 ELSE client

\* McpConfigSchema.parse throws: updateConfig is left with the ZodError
ParseThrows ==
    /\ configError' = <<"ZodError">>
    /\ UNCHANGED <<config, logger, endpoint, client>>

\* an updateConfig that assigns this.config before it validates
updateConfigAssignsFirst(newConfig) ==
    IF SchemaAccepts(SpreadConfig(config, newConfig))
    THEN /\ configError' = <<>>
         /\ Reconfigured(SpreadConfig(config, newConfig), newConfig)
    ELSE /\ configError' = <<"ZodError">>
         /\ config' = SpreadConfig(config, newConfig)
         /\ UNCHANGED <<logger, endpoint, client>>

\* updateConfig(newConfig): McpConfigSchema.parse throws before anything is
\* assigned
updateConfig(newConfig) ==
    IF SchemaAccepts(SpreadConfig(config, newConfig))
    THEN /\ configError' = <<>>
         /\ Reconfigured(SpreadConfig(config, newConfig), newConfig)
    ELSE ParseThrows

\* a reconfiguration that drops the snapshot when the endpoint URL changes
UpdateConfigDropsSnapshot(choices) ==
    /\ server # "failed"
    /\ \E newConfig \in choices : updateConfig(newConfig)
    /\ schema' = IF endpoint'.url # endpoint.url THEN <<>> ELSE schema
    /\ UNCHANGED <<maxRetries, calls, server, now>>

\* the embedding program reconfigures the server, with one of `choices`
UpdateConfigWith(choices) ==
    /\ server # "failed"
    /\ \E newConfig \in choices : updateConfig(newConfig)
    /\ UNCHANGED <<maxRetries, schema, calls, server, now>>

UpdateConfig == UpdateConfigWith(NewConfigs)

\* time passes
Tick ==
    /\ now < MaxClock
    /\ now' = now + 1
    /\ UNCHANGED <<config, logger, configError, maxRetries, endpoint, client,
                   schema, calls, server>>

\* The server within one reading of the clock.
Next ==
    \E c \in Calls :
        \/ Start(c)
        \/ OneAtATime(c) /\ QueryGraphQL(c)
        \/ OneAtATime(c) /\ IntrospectSchema(c)
        \/ OneAtATime(c) /\ AnalyzeQuery(c)
        \/ OneAtATime(c) /\ UnknownTool(c)
        \/ Resolve(c)
        \/ Reject(c)
        \/ Wake(c)
        \/ Deliver(c)

Spec == Init /\ [][Next]_vars

\* The server while time passes, for one policy configuration and retry
\* budgets up to 1.
TimedRetries == (0 - 1)..1

InitTimed ==
    /\ Init
    /\ ~config.allowMutations
    /\ ~config.allowSubscriptions
    /\ config.security.maxDepth = DefaultLimits.maxDepth
    /\ maxRetries \in TimedRetries

NextTimed == Next \/ Tick

SpecTimed == InitTimed /\ [][NextTimed]_vars

\* The server for one configuration, with every attempt answered or failed in
\* the end (the transport's per-attempt timeout), every backoff timer firing
\* and every answer delivered.
InitLive ==
    /\ Init
    /\ ~config.allowMutations
    /\ ~config.allowSubscriptions
    /\ config.security = Security(DefaultLimits, TRUE)

Fairness ==
    \A c \in Calls :
        /\ WF_vars(Resolve(c) \/ Reject(c))
        /\ WF_vars(Wake(c))
        /\ WF_vars(Deliver(c))

SpecLive == InitLive /\ [][Next]_vars /\ Fairness

\* The query-graphql tool on dry runs, for the four operation-type policies.
DetectTexts ==
    QueryTexts \cup {TextCommentSubscription, TextFragmentFirst, TextFragmentOnly,
                     TextStray, TextMutations, TextQueryMutation}

DetectArgs == {[NoArgs EXCEPT !.query = q, !.dryRun = TRUE] : q \in DetectTexts}

InitDetect ==
    /\ Init
    /\ maxRetries = 0
    /\ config.security = Security(DefaultLimits, FALSE)

NextDetect ==
    \E c \in Calls :
        \/ Start(c)
        \/ QueryGraphQLWith(c, DetectArgs)
        \/ Deliver(c)

SpecDetect == InitDetect /\ [][NextDetect]_vars

\* The server with two calls in progress at a time, for one configuration
\* (no start-up introspection) and one retry.
ConcurrentConfig ==
    WithRetries(McpConfig(FALSE, FALSE, Security(DefaultLimits, FALSE),
                          Header1("b", "1"), <<>>), 1)

InitConcurrent == ConstructedFor(ConcurrentConfig, ConcurrentCalls)

ConcurrentQueryArgs ==
    {[NoArgs EXCEPT !.query = TextB],
     [NoArgs EXCEPT !.query = TextA, !.headers = <<Header1("B", "3")>>]}

NextConcurrent ==
    \E c \in ConcurrentCalls :
        \/ Start(c)
        \/ QueryGraphQLWith(c, ConcurrentQueryArgs)
        \/ IntrospectSchemaWith(c, {NoArgs})
        \/ AnalyzeQueryWith(c, {[NoArgs EXCEPT !.query = TextA]})
        \/ Resolve(c)
        \/ Reject(c)
        \/ Wake(c)
        \/ Deliver(c)

SpecConcurrent == InitConcurrent /\ [][NextConcurrent]_vars

\* The analyze-query tool on documents with chains of nested fields,
\* fragments, repeated fields, and sizes on both sides of the warning
\* thresholds, for every choice of the include flags.
AnalyzeTexts ==
    {TextChain(n) : n \in 1..MaxChain}
    \cup {TextChain(DepthWarningAbove), TextChain(DepthWarningAbove + 1),
          TextRepeated(ComplexityWarningAbove), TextRepeated(ComplexityWarningAbove + 1),
          TextDistinct(FieldsWarningAbove), TextDistinct(FieldsWarningAbove + 1),
          TextFragmentSpread, TextSpreadTwice, TextInlineFragment, TextTwoPaths,
          TextTwoOperations, TextFragmentOnly, TextUnclosed}

AnalyzeRunArgs ==
    {[NoArgs EXCEPT !.query = q, !.includeComplexity = ic, !.includeDepth = id,
                    !.includeFields = if] :
        q \in AnalyzeTexts, ic \in BOOLEAN, id \in BOOLEAN, if \in BOOLEAN}

InitAnalyze ==
    /\ Init
    /\ maxRetries = 0
    /\ ~config.allowMutations
    /\ ~config.allowSubscriptions
    /\ config.security = Security(DefaultLimits, FALSE)

NextAnalyze ==
    \E c \in Calls :
        \/ Start(c)
        \/ AnalyzeQueryWith(c, AnalyzeRunArgs)
        \/ Deliver(c)

SpecAnalyze == InitAnalyze /\ [][NextAnalyze]_vars

\* The server with credentials in its configuration, reconfigured while it
\* starts and serves queries, for one policy configuration and one retry.
KeyedConfigs ==
    {WithRetries(McpConfig(FALSE, FALSE, Security(DefaultLimits, TRUE), h, key), 1) :
        h \in AuthorizationHeaderChoices, key \in OptionalApiKeys}

InitConfig == \E cfg \in KeyedConfigs : Constructed(cfg)

ConfigRunArgs == {[NoArgs EXCEPT !.query = TextA]}

NextConfig ==
    \/ UpdateConfig
    \/ \E c \in Calls :
          \/ Start(c)
          \/ OneAtATime(c) /\ QueryGraphQLWith(c, ConfigRunArgs)
          \/ Resolve(c)
          \/ Reject(c)
          \/ Wake(c)
          \/ Deliver(c)

SpecConfig == InitConfig /\ [][NextConfig]_vars

\* The server reconfigured in every member updateConfig hands on (endpoint,
\* headers, defaultApiKey, timeout, retries, logging), with values the
\* configuration schema accepts and values it rejects, while it starts,
\* introspects and serves queries without retries.
ReconfigHeaderChoices == {EmptyHeaders, Header1("Authorization", "t")}

ReconfigConfigs ==
    {WithRetries(McpConfig(FALSE, FALSE, Security(DefaultLimits, TRUE), h, key), 0) :
        h \in ReconfigHeaderChoices, key \in {<<>>, <<"k1">>}}

ReconfigChoices ==
    {[NoNewConfig EXCEPT !.endpoint = <<u>>] : u \in {"u2", "not a url"}}
    \cup {[NoNewConfig EXCEPT !.headers = <<h>>] : h \in ReconfigHeaderChoices}
    \cup {[NoNewConfig EXCEPT !.defaultApiKey = key] : key \in {<<"">>, <<"k1">>}}
    \cup {[NoNewConfig EXCEPT !.timeout = <<t>>] : t \in {0, 2 * DefaultTimeout}}
    \cup {[NoNewConfig EXCEPT !.retries = <<1>>]}
    \cup {[NoNewConfig EXCEPT !.logging = <<[NoLogging EXCEPT !.level = <<l>>]>>] :
             l \in {"debug", "verbose"}}
    \cup {[NoNewConfig EXCEPT !.logging = <<[NoLogging EXCEPT !.queries = <<TRUE>>]>>]}

InitReconfig == \E cfg \in ReconfigConfigs : Constructed(cfg)

ReconfigQueryArgs == {[NoArgs EXCEPT !.query = TextB, !.dryRun = TRUE]}

NextReconfig ==
    \/ UpdateConfigWith(ReconfigChoices)
    \/ \E c \in Calls :
          \/ Start(c)
          \/ OneAtATime(c) /\ QueryGraphQLWith(c, ReconfigQueryArgs)
          \/ OneAtATime(c) /\ IntrospectSchemaWith(c, {NoArgs})
          \/ Resolve(c)
          \/ Reject(c)
          \/ Deliver(c)

SpecReconfig == InitReconfig /\ [][NextReconfig]_vars

\* The snapshot shared by two calls in progress at a time: introspections
\* and queries that overlap, while time passes and the server is moved to
\* another endpoint URL, for one configuration without retries.
SnapshotConfig == WithRetries(ConcurrentConfig, 0)

InitSnapshot == ConstructedFor(SnapshotConfig, ConcurrentCalls)

SnapshotQueryArgs == {[NoArgs EXCEPT !.query = TextB]}

SnapshotReconfigurations == {[NoNewConfig EXCEPT !.endpoint = <<"u2">>]}

NextSnapshot ==
    \/ Tick
    \/ UpdateConfigWith(SnapshotReconfigurations)
    \/ \E c \in ConcurrentCalls :
          \/ Start(c)
          \/ QueryGraphQLWith(c, SnapshotQueryArgs)
          \/ IntrospectSchemaWith(c, {NoArgs})
          \/ Resolve(c)
          \/ Reject(c)
          \/ Deliver(c)

SpecSnapshot == InitSnapshot /\ [][NextSnapshot]_vars

\* The query-graphql tool under the four operation-type policies, with a
\* snapshot from start-up, on dry runs and real runs of documents that hold a
\* mutation or a subscription in first or in later position, without retries.
PolicyTexts ==
    {TextA, TextMutation, TextMutationUnknown, TextMutations, TextSubscription,
     TextComment, TextFragmentFirst, TextQueryThenMutation,
     TextQueryThenSubscription}

PolicyArgs ==
    {[NoArgs EXCEPT !.query = q, !.dryRun = d] : q \in PolicyTexts, d \in BOOLEAN}

InitPolicy ==
    /\ Init
    /\ maxRetries = 0
    /\ config.security = Security(DefaultLimits, TRUE)
    /\ config.headers = Header1("b", "1")

NextPolicy ==
    \E c \in Calls :
        \/ Start(c)
        \/ QueryGraphQLWith(c, PolicyArgs)
        \/ Resolve(c)
        \/ Reject(c)
        \/ Deliver(c)

SpecPolicy == InitPolicy /\ [][NextPolicy]_vars

(***************************************************************************)
(* Properties.                                                             *)
(***************************************************************************)
RECURSIVE Sum(_)
Sum(seq) == IF seq = <<>> THEN 0 ELSE Head(seq) + Sum(Tail(seq))

\* the query text the call hands to executeQuery
TextOf(k) == IF k.tool \in IntrospectionTools THEN IntrospectionQuery ELSE k.args.query

\* executeQuery has been called for this call
ExecuteQueryCalled(k) == k.pc \in {"request", "sleep"} \/ k.exec.status # "pending"

\* the validation errors of a text against the cached snapshot, if any
ErrorsAgainstSnapshot(text) ==
    IF schema = <<>> THEN <<>> ELSE validate(schema[1].schema, parse(text))

\* a live (not dry-run) call of executeQuery with a document that parses and
\* passes validation
LiveValidCall(k) ==
    /\ ExecuteQueryCalled(k)
    /\ ~k.args.dryRun
    /\ parse(TextOf(k)).ok
    /\ ErrorsAgainstSnapshot(TextOf(k)) = <<>>

\* C1: with maxRetries >= 0, a live call with a valid document, none of whose
\* attempts succeeds, is not over before it has made maxRetries + 1 attempts,
\* never makes more, and ends with NetworkError after exactly maxRetries + 1.
C1_ExhaustsBudget ==
    \A c \in Calls :
        LET k == calls[c]
        IN  (maxRetries >= 0 /\ LiveValidCall(k) /\ k.resolved = <<>>) =>
                /\ Len(k.requests) <= maxRetries + 1
                /\ k.pc = "done" =>
                      /\ Len(k.requests) = maxRetries + 1
                      /\ Len(k.thrown) = maxRetries + 1
                      /\ k.exec.status = "thrown"
                      /\ k.exec.error = "NetworkError"

C1_Witness ==
    \E c \in Calls :
        /\ maxRetries = 2
        /\ calls[c].tool = "query-graphql"
        /\ calls[c].pc = "done"
        /\ Len(calls[c].requests) = 3
        /\ Len(calls[c].thrown) = 3
        /\ calls[c].outcome.error = "NetworkError"

\* C2: once an attempt has succeeded the call is over: it made one attempt
\* more than the failures before it, slept only between attempts, and
\* executeQuery returned that attempt's data (the tool call passes it on).
C2_StopsAtFirstSuccess ==
    \A c \in Calls :
        LET k == calls[c]
        IN  k.resolved # <<>> =>
                /\ k.pc = "done"
                /\ Len(k.resolved) = 1
                /\ Len(k.thrown) <= maxRetries
                /\ Len(k.requests) = Len(k.thrown) + 1
                /\ Len(k.backoff) = Len(k.thrown)
                /\ k.exec.status = "returned"
                /\ k.exec.data = k.resolved[1]
                /\ k.tool = "query-graphql" =>
                      k.outcome.status = "returned" /\ k.outcome.data = k.resolved[1]

C2_Witness ==
    \E c \in Calls :
        /\ maxRetries = 2
        /\ calls[c].tool = "query-graphql"
        /\ calls[c].resolved = <<"d1">>
        /\ Len(calls[c].thrown) = 1
        /\ Len(calls[c].requests) = 2
        /\ calls[c].outcome.data = "d1"

\* C3: the i-th backoff of a call lasts 2^(i-1) seconds; a call sleeps after
\* a failed attempt only if another attempt follows, so a call that succeeds
\* after k failures has slept 2^k - 1 seconds and one that exhausts its
\* budget 2^maxRetries - 1 seconds.
C3_Backoff ==
    \A c \in Calls :
        LET k == calls[c]
        IN  /\ \A i \in DOMAIN k.backoff : k.backoff[i] = 2 ^ (i - 1)
            /\ k.pc = "sleep" =>
                  /\ Len(k.backoff) = Len(k.thrown)
                  /\ Len(k.thrown) <= maxRetries
            /\ k.pc = "request" => Len(k.backoff) = Len(k.requests) - 1
            /\ (k.pc = "done" /\ k.requests # <<>>) =>
                  Len(k.backoff) = Len(k.requests) - 1
            /\ k.resolved # <<>> => Sum(k.backoff) = 2 ^ Len(k.thrown) - 1
            /\ (k.pc = "done" /\ k.requests # <<>> /\ k.resolved = <<>>) =>
                  Sum(k.backoff) = 2 ^ maxRetries - 1

C3_Witness ==
    \E c \in Calls :
        /\ maxRetries = 2
        /\ calls[c].resolved # <<>>
        /\ Len(calls[c].thrown) = 2
        /\ calls[c].backoff = <<1, 2>>
        /\ Sum(calls[c].backoff) = 3

\* C4: a NetworkError raised after failed attempts wraps the error of the
\* last attempt, and the attempt count of its message is the number of
\* requests the call dispatched.
C4_WrapsLastError ==
    \A c \in Calls :
        LET k == calls[c]
        IN  (k.exec.error = "NetworkError" /\ k.requests # <<>>) =>
                /\ Len(k.thrown) = Len(k.requests)
                /\ k.exec.originalError = k.thrown[Len(k.thrown)]
                /\ k.exec.statedAttempts = Len(k.requests)

C4_Witness ==
    \E c \in Calls :
        /\ calls[c].exec.error = "NetworkError"
        /\ calls[c].thrown = <<"e1", "e1", "e2">>
        /\ calls[c].exec.originalError = "e2"
        /\ calls[c].exec.statedAttempts = 3

\* C5: a dry-run call never dispatches a request and never sleeps.
C5_DryRunNoNetwork ==
    \A c \in Calls :
        calls[c].args.dryRun =>
            /\ calls[c].requests = <<>>
            /\ calls[c].backoff = <<>>
            /\ calls[c].pc \in {"idle", "done"}

C5_Witness ==
    \E c \in Calls :
        /\ calls[c].args.dryRun
        /\ calls[c].pc = "done"
        /\ calls[c].exec.status = "returned"
        /\ schema # <<>>
        /\ maxRetries = 2

\* C6 as stated: a dry run of a syntactically valid query always returns
\* data null with extensions.dryRun true, schema cached or not.
C6_DryRunAlwaysReturns ==
    \A c \in Calls :
        LET k == calls[c]
        IN  (ExecuteQueryCalled(k) /\ k.args.dryRun /\ parse(TextOf(k)).ok) =>
                /\ k.exec.status = "returned"
                /\ k.exec.data = "null"
                /\ k.exec.dryRun

\* C6 amended: a dry run of a syntactically valid query returns data null
\* with extensions.dryRun true when no snapshot is cached or the query has no
\* validation error against the cached snapshot, and fails with
\* ValidationError when it has one.
C6_DryRunResult ==
    \A c \in Calls :
        LET k == calls[c]
        IN  (ExecuteQueryCalled(k) /\ k.args.dryRun /\ parse(TextOf(k)).ok) =>
                IF ErrorsAgainstSnapshot(TextOf(k)) = <<>>
                THEN /\ k.exec.status = "returned"
                     /\ k.exec.data = "null"
                     /\ k.exec.dryRun
                ELSE /\ k.exec.status = "thrown"
                     /\ k.exec.error = "ValidationError"

C6_Witness ==
    \E c \in Calls :
        /\ calls[c].args.dryRun
        /\ calls[c].args.query = TextXY
        /\ schema # <<>>
        /\ calls[c].exec.status = "thrown"
        /\ calls[c].exec.error = "ValidationError"

\* C7: a query-graphql call whose text begins with `mutation` while
\* mutations are disabled, or with `subscription` while subscriptions are
\* disabled, is rejected with the policy error: executeQuery is not called
\* and no request is dispatched.
C7_PolicyBeforeNetwork ==
    \A c \in Calls :
        LET k == calls[c]
        IN  (/\ k.tool = "query-graphql"
             /\ k.args.wellTyped
             /\ \/ startsWith(k.args.query, KwMutation) /\ ~config.allowMutations
                \/ startsWith(k.args.query, KwSubscription)
                       /\ ~config.allowSubscriptions) =>
                /\ k.pc = "done"
                /\ k.outcome.status = "thrown"
                /\ k.outcome.error = "Error"
                /\ k.exec.status = "pending"
                /\ k.requests = <<>>

C7_Witness ==
    \E c \in Calls :
        /\ calls[c].tool = "query-graphql"
        /\ calls[c].args.query = TextMutation
        /\ ~config.allowMutations
        /\ maxRetries = 2
        /\ calls[c].pc = "done"
        /\ calls[c].outcome.error = "Error"
        /\ calls[c].requests = <<>>

\* the per-request headers of a call, as a mapping
GivenHeaders(k) == IF k.args.headers = <<>> THEN EmptyHeaders ELSE k.args.headers[1]

\* C8: every dispatched request carries the per-request value under every
\* per-request key, the default value under every other default key, and no
\* other key; keys differing in case are different keys.
C8_HeaderMerge ==
    \A c \in Calls :
        \A i \in DOMAIN calls[c].requests :
            LET sent == EffectiveHeaders(calls[c].requests[i])
                per  == GivenHeaders(calls[c])
                def  == endpoint.headers
            IN  /\ DOMAIN sent = DOMAIN def \cup DOMAIN per
                /\ \A key \in DOMAIN per : sent[key] = per[key]
                /\ \A key \in DOMAIN def \ DOMAIN per : sent[key] = def[key]
                /\ (def = Header2("A", "1", "B", "2") /\ per = Header1("B", "3")) =>
                       sent = Header2("A", "1", "B", "3")
                /\ (def = Header2("A", "1", "B", "2") /\ per = Header1("b", "3")) =>
                       sent = [x \in {"A", "B", "b"} |->
                                  IF x = "A" THEN "1" ELSE IF x = "B" THEN "2" ELSE "3"]

C8_Witness ==
    \E c \in Calls :
        /\ endpoint.headers = Header2("A", "1", "B", "2")
        /\ calls[c].args.headers = <<Header1("B", "3")>>
        /\ Len(calls[c].requests) = 2
        /\ EffectiveHeaders(calls[c].requests[2]) = Header2("A", "1", "B", "3")

\* C9: when a snapshot is cached and the document has validation errors
\* against it, executeQuery fails with ValidationError carrying all of them,
\* in order, and dispatches nothing.
C9_ValidationAborts ==
    \A c \in Calls :
        LET k == calls[c]
        IN  (/\ ExecuteQueryCalled(k)
             /\ parse(TextOf(k)).ok
             /\ schema # <<>>
             /\ ErrorsAgainstSnapshot(TextOf(k)) # <<>>) =>
                /\ k.pc = "done"
                /\ k.exec.status = "thrown"
                /\ k.exec.error = "ValidationError"
                /\ k.exec.errors = ErrorsAgainstSnapshot(TextOf(k))
                /\ (TextOf(k) = TextXY /\ schema[1].schema = SchemaFields("sA")) =>
                       k.exec.errors = << <<"x">>, <<"y">> >>
                /\ k.requests = <<>>
                /\ k.backoff = <<>>

C9_Witness ==
    \E c \in Calls :
        /\ calls[c].tool = "query-graphql"
        /\ ~calls[c].args.dryRun
        /\ maxRetries = 2
        /\ schema # <<>>
        /\ calls[c].exec.error = "ValidationError"
        /\ calls[c].exec.errors = << <<"x">>, <<"y">> >>
        /\ calls[c].requests = <<>>

\* C10 as stated: executeQuery on a text that does not parse fails with
\* ValidationError and dispatches nothing.
C10_ParseFailureIsValidationError ==
    \A c \in Calls :
        LET k == calls[c]
        IN  (ExecuteQueryCalled(k) /\ ~parse(TextOf(k)).ok) =>
                /\ k.exec.status = "thrown"
                /\ k.exec.error = "ValidationError"
                /\ k.requests = <<>>

\* introspectSchema has been called for this call and is over
IntrospectionOver(k) ==
    k.tool \in IntrospectionTools /\ k.pc = "done" /\ k.exec.status # "pending"

\* C11: an introspectSchema call that fails, fails with SchemaError: when the
\* execution failed (NetworkError after the retry budget, or any other
\* error), when the response has no data and when the data is no
\* introspection result; it succeeds in no such case.
C11_IntrospectionFailsWithSchemaError ==
    \A c \in Calls :
        LET k == calls[c]
        IN  IntrospectionOver(k) =>
                /\ k.outcome.status \in {"returned", "thrown"}
                /\ k.outcome.status = "thrown" => k.outcome.error = "SchemaError"
                /\ (\/ k.exec.status = "thrown"
                    \/ k.exec.data = "null"
                    \/ ~IsIntrospectionResult(k.exec.data)) =>
                       /\ k.outcome.status = "thrown"
                       /\ k.outcome.error = "SchemaError"

C11_Witness ==
    \E c \in Calls :
        /\ calls[c].tool = "introspect-schema"
        /\ maxRetries = 1
        /\ Len(calls[c].thrown) = 2
        /\ calls[c].exec.error = "NetworkError"
        /\ calls[c].outcome.error = "SchemaError"

\* getSchema(): this.schema
getSchema == schema

\* a successful introspection of call c is over with this step
IntrospectionSucceeds(c) ==
    /\ calls[c].pc # "done"
    /\ calls'[c].pc = "done"
    /\ calls'[c].tool \in IntrospectionTools
    /\ calls'[c].outcome.status = "returned"

\* C12: getSchema() is null at first; a step in which a successful
\* introspection is over sets it to the snapshot built from that
\* introspection's data, whole and alone; every other step (a failed
\* introspection among them) leaves it as it was.
C12_SnapshotOfLastSuccess ==
    /\ getSchema = <<>>
    /\ [][/\ Len(getSchema') <= 1
          /\ \A c \in Calls :
                IF IntrospectionSucceeds(c)
                THEN getSchema' = << SchemaInfo(calls'[c].resolved[1], now) >>
                ELSE getSchema' = getSchema]_vars

\* a failed introspection after a successful one: the snapshot is the one
\* that was cached when the call began
C12_Witness ==
    \E c \in Calls :
        /\ calls[c].tool = "introspect-schema"
        /\ calls[c].pc = "done"
        /\ calls[c].outcome.error = "SchemaError"
        /\ calls[c].requests # <<>>
        /\ calls[c].cached # <<>>
        /\ getSchema = calls[c].cached

\* C13: the version of a snapshot is generateSchemaVersion of its SDL text;
\* an introspect-schema call that obtains the SDL of the snapshot cached
\* before it returns the same version, whatever headers it used, with a
\* lastUpdated read from the clock when it was over.
C13_VersionFromSdl ==
    /\ schema # <<>> =>
          /\ schema[1].version = generateSchemaVersion(schema[1].sdl)
          /\ schema[1].lastUpdated <= now
    /\ \A c \in Calls :
          LET k == calls[c]
          IN  (k.tool = "introspect-schema" /\ k.result # <<>>) =>
                  /\ k.result[1].version = generateSchemaVersion(k.result[1].schema)
                  /\ k.result[1].schema = printSchema(k.resolved[1])
                  /\ k.result[1].lastUpdated <= now
                  /\ k.cached # <<>> =>
                        /\ k.cached[1].lastUpdated <= k.result[1].lastUpdated
                        /\ k.cached[1].sdl = k.result[1].schema =>
                              k.cached[1].version = k.result[1].version

C13_Witness ==
    \E c \in Calls :
        /\ calls[c].tool = "introspect-schema"
        /\ calls[c].result # <<>>
        /\ calls[c].args.headers # <<>>
        /\ calls[c].cached # <<>>
        /\ calls[c].cached[1].sdl = calls[c].result[1].schema
        /\ calls[c].cached[1].version = calls[c].result[1].version
        /\ calls[c].cached[1].lastUpdated < calls[c].result[1].lastUpdated

\* C14 as stated: validate() is never called on the introspection document.
C14_IntrospectionNotValidated ==
    \A c \in Calls :
        calls[c].tool \in IntrospectionTools => ~calls[c].validated

\* the call was bound to fail: an unknown tool, arguments the tool's schema
\* rejects, a policy rejection or an error of the client
FailedCall(k) ==
    \/ k.tool \notin ToolNames
    \/ ~k.args.wellTyped
    \/ k.outcome.status = "thrown"

\* C15: the call handler answers a tool call exactly when the tool handler
\* is over, once, and lets no error out: a failed call (unknown tool, bad
\* arguments, policy rejection, ValidationError, NetworkError, QueryError,
\* SchemaError) is answered with isError and a payload that holds the
\* message, the tool name and the args; a call that succeeded is answered
\* with its result and is not marked as an error.
C15_HandlerAlwaysAnswers ==
    \A c \in Calls :
        LET k == calls[c]
        IN  k.tool # "start" =>
                /\ Len(k.response) <= 1
                /\ k.pc = "done" <=> k.response # <<>>
                /\ k.pc = "done" =>
                      /\ k.outcome.status \in {"returned", "thrown"}
                      /\ k.response[1].isError <=> FailedCall(k)
                      /\ k.response[1].isError <=> k.outcome.status = "thrown"
                      /\ k.response[1].isError =>
                            /\ {"error", "tool", "args"} \subseteq DOMAIN k.response[1].payload
                            /\ k.response[1].payload.error = MessageOf(k)
                            /\ k.response[1].payload.tool = k.tool
                            /\ k.response[1].payload.args = k.args
                      /\ ~k.response[1].isError =>
                            /\ k.result # <<>>
                            /\ k.response[1].payload = k.result[1]
                      /\ k.exec.error = "NetworkError" =>
                            /\ k.response[1].isError
                            /\ k.response[1].payload.error[Len(k.response[1].payload.error) - 1]
                                   = ToString(maxRetries + 1)

C15_Witness ==
    \E c \in Calls :
        /\ calls[c].tool = "query-graphql"
        /\ maxRetries = 1
        /\ Len(calls[c].thrown) = 2
        /\ calls[c].response # <<>>
        /\ calls[c].response[1].isError
        /\ calls[c].response[1].payload.error =
               <<"Query execution failed after ", "2", " attempts">>
        /\ calls[c].response[1].payload.tool = "query-graphql"

\* C16 as stated: the payload of a failed call whose error carries details
\* (a ValidationError with its list of validation errors) has them under
\* `details`.
C16_DetailsInPayload ==
    \A c \in Calls :
        LET k == calls[c]
        IN  (/\ k.response # <<>>
             /\ k.outcome.error = "ValidationError"
             /\ k.outcome.errors # <<>>) =>
                /\ "details" \in DOMAIN k.response[1].payload
                /\ k.response[1].payload.details.errors = k.outcome.errors

\* C17 as stated: with security.allowIntrospection false no introspection
\* request is dispatched, by start or by a tool call, and no snapshot is
\* stored.
C17_IntrospectionDisabled ==
    ~config.security.allowIntrospection =>
        /\ schema = <<>>
        /\ \A c \in Calls :
              calls[c].tool \in IntrospectionTools => calls[c].requests = <<>>

\* the configuration with other security limits
WithLimits(cfg, limits) ==
    [cfg EXCEPT !.security = Security(limits, cfg.security.allowIntrospection)]

C19_ValidateFalseSkipsValidation ==
    \A c \in Calls :
        LET k == calls[c]
        IN  (/\ k.tool = "query-graphql"
             /\ k.args.wellTyped
             /\ ~k.args.validate
             /\ ExecuteQueryCalled(k)) =>
                /\ ~k.validated
                /\ k.exec.error # "ValidationError"

\* C20 as stated: every request of a call that was given an operationName
\* carries that operationName.
C20_OperationNameSent ==
    \A c \in Calls :
        calls[c].args.operationName # <<>> =>
            \A i \in DOMAIN calls[c].requests :
                calls[c].requests[i].operationName = calls[c].args.operationName

\* HTTP header names are case-insensitive: the spellings of Authorization
\* among the configured headers
AuthorizationSpellings == {"Authorization", "authorization", "AUTHORIZATION"}

HasAuthorization(headers) == DOMAIN headers \cap AuthorizationSpellings # {}

\* what the claim C21 says the client's default headers are, for a
\* configuration with a default API key
DefaultKeyApplied(cfg, headers) ==
    IF HasAuthorization(cfg.headers)
    THEN headers = cfg.headers
    ELSE headers = SetHeader(cfg.headers, "Authorization", Bearer(cfg.defaultApiKey[1]))

\* C21: at construction and after every reconfiguration that leaves the
\* server with a default API key, the client's default headers are the
\* configured ones plus `Authorization: Bearer <key>` when no Authorization
\* header is configured, and exactly the configured ones when one is, in
\* any letter case and with any value.
C21_DefaultApiKeyKeepsAuthorization ==
    /\ HasApiKey(config) => DefaultKeyApplied(config, client.headers)
    /\ [][(config' # config /\ HasApiKey(config')) =>
              DefaultKeyApplied(config', client'.headers)]_vars

\* the analyses analyze-query has returned: the call, with its arguments, and
\* the QueryAnalysisResult
AnalysisReturned(k) ==
    k.tool = "analyze-query" /\ k.pc = "done" /\ k.result # <<>>

AllIncluded(args) ==
    args.includeComplexity /\ args.includeDepth /\ args.includeFields

\* the chains among the analysed documents
ChainLengths == (1..MaxChain) \cup {DepthWarningAbove, DepthWarningAbove + 1}

\* a, b, c, ...: the fields of a chain in nesting order
ChainFields(n) == [i \in 1..n |-> <<LowerAlpha[i]>>]

RECURSIVE FragmentFields(_)
FragmentFields(defs) ==
    IF defs = <<>> THEN {}
    ELSE (IF Head(defs).kind = "FragmentDefinition"
          THEN Range(FieldNames(Head(defs).selections)) ELSE {})
         \cup FragmentFields(Tail(defs))

\* the documents in which every named fragment is spread inside a field
SpreadTexts == {TextFragmentSpread, TextSpreadTwice}

\* C23: for a document in which a named fragment is spread inside a field,
\* the fields of the analysis contain the names of the fields selected
\* inside the fragment's definition, besides those written in the operation.
C23_FragmentFieldsReported ==
    \A c \in DOMAIN calls :
        (/\ AnalysisReturned(calls[c])
         /\ calls[c].args.includeFields
         /\ calls[c].args.query \in SpreadTexts) =>
            FragmentFields(parse(calls[c].args.query).definitions)
                \subseteq Range(calls[c].result[1].fields[1])

\* the documents of a known size: complexity, depth and number of distinct
\* fields, by construction
SizedTexts ==
    {[text |-> TextChain(n), complexity |-> n, depth |-> n, fields |-> n] :
        n \in ChainLengths}
    \cup {[text |-> TextRepeated(n), complexity |-> n, depth |-> 2, fields |-> 1] :
            n \in {ComplexityWarningAbove, ComplexityWarningAbove + 1}}
    \cup {[text |-> TextDistinct(n), complexity |-> n, depth |-> 2, fields |-> n] :
            n \in {FieldsWarningAbove, FieldsWarningAbove + 1}}

WarningsOf(k) == Range(k.result[1].warnings)

C25_BackoffSuspendsOnlyItsCall ==
    [][\A c \in DOMAIN calls :
          /\ calls'[c] # calls[c] =>
                \A d \in DOMAIN calls \ {c} : calls'[d] = calls[d]
          /\ (calls[c].pc = "sleep" /\ calls'[c] # calls[c]) =>
                /\ calls'[c].pc = "request"
                /\ calls'[c].attempt = calls[c].attempt + 1
                /\ Len(calls'[c].requests) = Len(calls[c].requests) + 1]_vars

\* c1 is in the backoff after its first attempt; c2 began while c1 was in
\* that backoff, has made two attempts of its own, and has returned
C25_Witness ==
    /\ calls["c1"].pc = "sleep"
    /\ Len(calls["c1"].requests) = 1
    /\ [call |-> "c1", attempt |-> calls["c1"].attempt] \in calls["c2"].overlaps
    /\ calls["c2"].pc = "done"
    /\ Len(calls["c2"].requests) = 2
    /\ Len(calls["c2"].backoff) = 1
    /\ calls["c2"].outcome.status = "returned"

ExecuteQueryErrors == {"ValidationError", "QueryError", "NetworkError"}

\* C26: when every attempt is answered or fails in the end, every call of
\* executeQuery completes: with a result, a ValidationError or QueryError, or
\* a NetworkError once the retry budget is used up; the loop makes no more
\* than maxRetries + 1 attempts.
C26_EveryCallCompletes ==
    \A c \in Calls :
        /\ (calls[c].pc \in {"request", "sleep"}) ~> (calls[c].pc = "done")
        /\ [](Len(calls[c].requests) <= Max(maxRetries + 1, 0))
        /\ []((calls[c].pc = "done" /\ ExecuteQueryCalled(calls[c])) =>
                 \/ calls[c].exec.status = "returned"
                 \/ /\ calls[c].exec.status = "thrown"
                    /\ calls[c].exec.error \in ExecuteQueryErrors
                    /\ (calls[c].exec.error = "NetworkError" =>
                           Len(calls[c].thrown) = Max(maxRetries + 1, 0)))

\* a call that has used up a budget of two retries: three attempts, two
\* backoffs, NetworkError
C26_Witness ==
    \E c \in Calls :
        /\ maxRetries = 2
        /\ calls[c].pc = "done"
        /\ Len(calls[c].requests) = 3
        /\ Len(calls[c].backoff) = 2
        /\ calls[c].exec.error = "NetworkError"

\* the operation kind the claim C27 gives each text
ExpectedKinds ==
    {[text |-> TextMutation, kind |-> "mutation"],            \* prefix
     [text |-> TextUpperBlank, kind |-> "mutation"],          \* trimmed, lower-cased
     [text |-> TextMutations, kind |-> "mutation"],           \* prefix, not parsed
     [text |-> TextSubscription, kind |-> "subscription"],
     [text |-> TextTwoOperations, kind |-> "query"],
     [text |-> TextQueryMutation, kind |-> "query"],          \* prefix, not parsed
     [text |-> TextA, kind |-> "query"],                      \* leading brace
     [text |-> TextXY, kind |-> "query"],
     [text |-> TextUnclosed, kind |-> "query"],
     [text |-> TextComment, kind |-> "mutation"],             \* parsed
     [text |-> TextCommentSubscription, kind |-> "subscription"],
     [text |-> TextFragmentFirst, kind |-> "mutation"],       \* first operation
     [text |-> TextFragmentOnly, kind |-> "query"],           \* no operation
     [text |-> TextStray, kind |-> "query"]}                  \* syntax error

\* the operation-type policy has refused the call
RefusedByPolicy(k) ==
    /\ k.pc = "done"
    /\ k.outcome.status = "thrown"
    /\ k.outcome.error = "Error"
    /\ k.exec.status = "pending"

\* C27: query-graphql takes a text for a mutation, a subscription or a query
\* as the claim says: by the keyword the trimmed, lower-cased text begins
\* with (or a leading brace), else by the first operation definition of the
\* parsed document, and as a query when the text does not parse or has no
\* operation.  The kind shows in the calls the policy refuses.
C27_OperationKindDetection ==
    \A c \in Calls :
        \A e \in ExpectedKinds :
            (/\ calls[c].tool = "query-graphql"
             /\ calls[c].args.wellTyped
             /\ calls[c].args.query = e.text) =>
                (RefusedByPolicy(calls[c]) <=>
                    \/ e.kind = "mutation" /\ ~config.allowMutations
                    \/ e.kind = "subscription" /\ ~config.allowSubscriptions)

\* #c\nsubscription{a}, found to be a subscription by parsing, is refused
\* while mutations are allowed and subscriptions are not
C27_Witness ==
    \E c \in Calls :
        /\ calls[c].tool = "query-graphql"
        /\ calls[c].args.query = TextCommentSubscription
        /\ config.allowMutations
        /\ ~config.allowSubscriptions
        /\ RefusedByPolicy(calls[c])

\* the selections of the fragment definition `name`, <<>> when there is none
RECURSIVE FragmentBody(_, _)
FragmentBody(defs, name) ==
    IF defs = <<>> THEN <<>>
    ELSE IF Head(defs).kind = "FragmentDefinition" /\ Head(defs).name = name
    THEN Head(defs).selections
    ELSE FragmentBody(Tail(defs), name)

\* the field selections reachable from `nodes`, the contents of a fragment
\* counted at every place it is spread (the documents have no fragment that
\* spreads itself)
RECURSIVE ReachableFields(_, _)
ReachableFields(defs, nodes) ==
    IF nodes = <<>> THEN 0
    ELSE (IF Head(nodes).kind = "Field"
          THEN 1 + ReachableFields(defs, Head(nodes).selections)
          ELSE IF Head(nodes).kind = "FragmentSpread"
          THEN ReachableFields(defs, FragmentBody(defs, Head(nodes).name))
          ELSE ReachableFields(defs, Head(nodes).selections))
         + ReachableFields(defs, Tail(nodes))

RECURSIVE ReachableFromOperations(_, _)
ReachableFromOperations(defs, rest) ==
    IF rest = <<>> THEN 0
    ELSE (IF Head(rest).kind = "OperationDefinition"
          THEN ReachableFields(defs, Head(rest).selections) ELSE 0)
         + ReachableFromOperations(defs, Tail(rest))

\* C28: the complexity of the analysis is the number of field selections
\* reachable from the root selection sets through nested selection sets,
\* the contents of a fragment counted at every place the fragment is spread
\* and a field reached through two paths counted twice.
C28_ComplexityCountsReachableFields ==
    \A c \in DOMAIN calls :
        (AnalysisReturned(calls[c]) /\ calls[c].args.includeComplexity) =>
            calls[c].result[1].complexity[1] =
                ReachableFromOperations(parse(calls[c].args.query).definitions,
                                        parse(calls[c].args.query).definitions)

\* the deepest field under `nodes`, a field directly under `nodes` being at
\* level `depth`; the fields of a fragment are at the level of the field
\* that holds the fragment
RECURSIVE DeepestThroughFragments(_, _, _)
DeepestThroughFragments(defs, nodes, depth) ==
    IF nodes = <<>> THEN 0
    ELSE Max(IF Head(nodes).kind = "Field"
             THEN Max(depth,
                      DeepestThroughFragments(defs, Head(nodes).selections, depth + 1))
             ELSE IF Head(nodes).kind = "FragmentSpread"
             THEN DeepestThroughFragments(defs, FragmentBody(defs, Head(nodes).name),
                                          Max(1, depth - 1))
             ELSE DeepestThroughFragments(defs, Head(nodes).selections,
                                          Max(1, depth - 1)),
             DeepestThroughFragments(defs, Tail(nodes), depth))

RECURSIVE DepthThroughFragments(_, _)
DepthThroughFragments(defs, rest) ==
    IF rest = <<>> THEN 0
    ELSE Max(IF Head(rest).kind = "OperationDefinition"
             THEN DeepestThroughFragments(defs, Head(rest).selections, 1) ELSE 0,
             DepthThroughFragments(defs, Tail(rest)))

\* C29: the depth of the analysis is the maximum nesting level of field
\* selections, 1 for a top-level field; inline fragments and fragment
\* spreads add no level, and the fields inside a fragment are visited at the
\* depth of the field that holds the fragment, the fields nested beneath
\* them counting towards the maximum.
C29_DepthVisitsFragments ==
    \A c \in DOMAIN calls :
        (AnalysisReturned(calls[c]) /\ calls[c].args.includeDepth) =>
            calls[c].result[1].depth[1] =
                DepthThroughFragments(parse(calls[c].args.query).definitions,
                                      parse(calls[c].args.query).definitions)

\* the validation errors of a call's query against the snapshot that was
\* cached when the call began
ErrorsAgainstCached(k) ==
    IF k.cached = <<>> THEN <<>>
    ELSE validate(k.cached[1].schema, parse(k.args.query))

QueryExecuted(k) ==
    k.tool = "query-graphql" /\ k.args.wellTyped /\ ExecuteQueryCalled(k)

InFlight(k) == k.pc \in {"request", "sleep"}

\* C30: a query call is validated once, before its first attempt, against
\* the snapshot cached at that moment: validation runs exactly when that
\* snapshot exists, the call fails with ValidationError exactly on that
\* snapshot's errors, and a call in flight is neither validated again nor
\* changed when an introspection stores another snapshot.
C30_ValidatedOnceAgainstOneSnapshot ==
    /\ [](\A c \in DOMAIN calls :
            QueryExecuted(calls[c]) =>
                /\ calls[c].validated <=>
                       (calls[c].cached # <<>> /\ parse(calls[c].args.query).ok)
                /\ calls[c].exec.error = "ValidationError" <=>
                       (parse(calls[c].args.query).ok
                          /\ ErrorsAgainstCached(calls[c]) # <<>>)
                /\ calls[c].exec.error = "ValidationError" =>
                       calls[c].exec.errors = ErrorsAgainstCached(calls[c]))
    /\ [][\A c \in DOMAIN calls :
            (QueryExecuted(calls[c]) /\ InFlight(calls[c])) =>
                /\ calls'[c].validated = calls[c].validated
                /\ calls'[c].cached = calls[c].cached
                /\ calls'[c].exec.error # "ValidationError"
                /\ schema' # schema => calls'[c] = calls[c]]_vars

\* the query {b} of c1 was validated against a snapshot that has the field
\* b; an introspection has since stored a snapshot without it, and c1 is in
\* its second attempt
C30_Witness ==
    /\ calls["c1"].tool = "query-graphql"
    /\ calls["c1"].args.query = TextB
    /\ calls["c1"].validated
    /\ calls["c1"].cached # <<>>
    /\ <<"b">> \in calls["c1"].cached[1].schema
    /\ schema # <<>>
    /\ schema # calls["c1"].cached
    /\ ErrorsAgainstSnapshot(TextB) # <<>>
    /\ calls["c1"].pc = "request"
    /\ Len(calls["c1"].requests) = 2

\* the requests of one executeQuery call all went to one URL, through a
\* GraphQLClient with the same default headers, with the same headers on the
\* wire
SameDestination(requests) ==
    \A i \in DOMAIN requests, j \in DOMAIN requests :
        /\ requests[i].url = requests[j].url
        /\ requests[i].clientHeaders = requests[j].clientHeaders
        /\ EffectiveHeaders(requests[i]) = EffectiveHeaders(requests[j])

\* C31: all attempts of one executeQuery call are sent to the same endpoint
\* URL with the same default headers and the same effective headers, also
\* when the server is reconfigured between two attempts of the call.
C31_AttemptsShareEndpoint ==
    \A c \in DOMAIN calls : SameDestination(calls[c].requests)

\* the client is the one the constructor would build from the configuration
ClientFollows(cfg) ==
    /\ endpoint = EndpointOf(cfg)
    /\ client = GraphQLClient(EndpointOf(cfg))
    /\ maxRetries = cfg.retries

\* C32: after any sequence of updateConfig calls the client in use has the
\* endpoint URL, the default headers (with or without the Authorization
\* header derived from defaultApiKey), the timeout and the retry budget of
\* the current configuration.
C32_ClientFollowsConfig == ClientFollows(config)

\* a step of updateConfig / updateEndpoint that took effect
ReconfigurationStep == config' # config \/ endpoint' # endpoint \/ client' # client

\* a query-graphql call begins in this step and reaches executeQuery
QueryBegins(c) ==
    /\ calls[c].pc = "idle"
    /\ calls'[c].tool = "query-graphql"
    /\ QueryExecuted(calls'[c])

\* an introspection (of the tool or of start) completes in this step
IntrospectionCompletes(c) ==
    /\ calls[c].pc = "request"
    /\ calls[c].tool \in IntrospectionTools
    /\ calls'[c].outcome.status = "returned"

\* C33: a reconfiguration, also one that moves the server to another
\* endpoint URL, leaves the cached snapshot as it is; the snapshot changes
\* only when an introspection completes, and every query that begins is
\* validated against the snapshot cached at that moment.
C33_ReconfigurationKeepsSnapshot ==
    [][/\ ReconfigurationStep => schema' = schema
       /\ schema' # schema => \E c \in DOMAIN calls : IntrospectionCompletes(c)
       /\ \A c \in DOMAIN calls :
            QueryBegins(c) =>
                /\ calls'[c].cached = schema
                /\ calls'[c].validated <=> schema # <<>>
                /\ calls'[c].exec.error = "ValidationError" <=>
                       ErrorsAgainstSnapshot(calls'[c].args.query) # <<>>]_vars

\* c1 was validated against a snapshot and sent to u1; the server was then
\* moved to u2, and c2, which began after that and was sent to u2, was
\* validated against the same snapshot, which is still the cached one
C33_Witness ==
    /\ calls["c1"].tool = "query-graphql"
    /\ calls["c1"].validated
    /\ calls["c1"].pc = "request"
    /\ calls["c1"].requests[1].url = "u1"
    /\ config.endpoint = "u2"
    /\ calls["c2"].tool = "query-graphql"
    /\ calls["c2"].validated
    /\ calls["c2"].pc = "request"
    /\ calls["c2"].requests[1].url = "u2"
    /\ calls["c2"].cached = calls["c1"].cached
    /\ schema = calls["c1"].cached
    /\ schema # <<>>

\* a step in which updateConfig threw
UpdateConfigThrows == configError = <<>> /\ configError' # <<>>

\* C34: an updateConfig whose merged configuration the schema rejects (an
\* endpoint that is not a URL, a logging level outside the enum) throws and
\* leaves getConfig(), the logger configuration, the client's endpoint and
\* GraphQLClient and the snapshot as they were; the server never holds a
\* configuration the schema rejects.
C34_RejectedUpdateChangesNothing ==
    /\ [](SchemaAccepts(config) /\ IsUrl(client.url) /\ logger.level \in LogLevels)
    /\ [][UpdateConfigThrows =>
            /\ config' = config
            /\ logger' = logger
            /\ endpoint' = endpoint
            /\ client' = client
            /\ schema' = schema]_vars

\* the server was moved to u2 with debug logging and has a snapshot; the
\* last updateConfig threw
C34_Witness ==
    /\ configError = <<"ZodError">>
    /\ config.endpoint = "u2"
    /\ client.url = "u2"
    /\ logger.level = "debug"
    /\ schema # <<>>

\* C35: a call ends with NetworkError only after it has made at least one
\* network attempt and that attempt has failed, so the error wrapped as
\* originalError is never null, for every retries value the configuration
\* schema accepts.
C35_NetworkErrorAfterAnAttempt ==
    \A c \in DOMAIN calls :
        calls[c].exec.error = "NetworkError" =>
            /\ calls[c].requests # <<>>
            /\ calls[c].thrown # <<>>
            /\ calls[c].exec.originalError # "null"

NoDuplicates(names) ==
    \A i \in DOMAIN names, j \in DOMAIN names : names[i] = names[j] => i = j

\* C36: every analysis of a document that parses has
\* 0 <= depth <= complexity, at most `complexity` fields, and no field name
\* twice.
C36_AnalysisBounds ==
    \A c \in DOMAIN calls :
        (AnalysisReturned(calls[c]) /\ AllIncluded(calls[c].args)) =>
            /\ 0 <= calls[c].result[1].depth[1]
            /\ calls[c].result[1].depth[1] <= calls[c].result[1].complexity[1]
            /\ Len(calls[c].result[1].fields[1]) <= calls[c].result[1].complexity[1]
            /\ NoDuplicates(calls[c].result[1].fields[1])

\* { a { b } c { b } } has been analysed: four field nodes, two levels, the
\* three names a, b, c
C36_Witness ==
    \E c \in DOMAIN calls :
        /\ AnalysisReturned(calls[c])
        /\ AllIncluded(calls[c].args)
        /\ calls[c].args.query = TextTwoPaths
        /\ calls[c].result[1].complexity = <<4>>
        /\ calls[c].result[1].depth = <<2>>
        /\ calls[c].result[1].fields = << << <<"a">>, <<"b">>, <<"c">> >> >>

\* texts query-graphql detects as a mutation or a subscription: by the
\* leading keyword (also when the rest does not parse or names a field no
\* schema has), or by the first operation after a comment or a fragment
DetectedKinds ==
    {[text |-> TextMutation, kind |-> "mutation"],
     [text |-> TextMutationUnknown, kind |-> "mutation"],
     [text |-> TextMutations, kind |-> "mutation"],
     [text |-> TextComment, kind |-> "mutation"],
     [text |-> TextFragmentFirst, kind |-> "mutation"],
     [text |-> TextSubscription, kind |-> "subscription"]}

KindDisabled(kind) ==
    \/ kind = "mutation" /\ ~config.allowMutations
    \/ kind = "subscription" /\ ~config.allowSubscriptions

\* C37: a dry-run query-graphql call whose detected kind is disabled is
\* rejected with the policy error before executeQuery is entered: the text
\* is neither parsed nor validated by it and no dry-run result comes back.
C37_PolicyBeforeDryRun ==
    \A c \in Calls : \A e \in DetectedKinds :
        (/\ calls[c].tool = "query-graphql"
         /\ calls[c].args.query = e.text
         /\ calls[c].args.dryRun
         /\ KindDisabled(e.kind)) =>
            /\ RefusedByPolicy(calls[c])
            /\ ~calls[c].validated
            /\ calls[c].result = <<>>
            /\ calls[c].response # <<>>
            /\ calls[c].response[1].isError
            /\ calls[c].response[1].payload.error = PolicyMessage(e.kind)

\* with a snapshot cached and mutations disabled, the dry run of mutation{y},
\* which the snapshot would not validate, was refused by the policy
C37_Witness ==
    \E c \in Calls :
        /\ calls[c].tool = "query-graphql"
        /\ calls[c].args.query = TextMutationUnknown
        /\ calls[c].args.dryRun
        /\ ~config.allowMutations
        /\ schema # <<>>
        /\ ErrorsAgainstSnapshot(TextMutationUnknown) # <<>>
        /\ RefusedByPolicy(calls[c])
        /\ calls[c].result = <<>>

\* the document has an operation definition of this kind, in any position
HasOperation(doc, kind) ==
    /\ doc.ok
    /\ \E i \in DOMAIN doc.definitions :
          /\ IsOperationDefinition(doc.definitions[i])
          /\ doc.definitions[i].operation = kind

\* C38: while mutations are disabled no query-graphql call whose document
\* holds a mutation operation, in whatever position, dispatches a request;
\* likewise for subscription operations while subscriptions are disabled.
C38_NoDisabledOperationOnTheNetwork ==
    \A c \in Calls :
        (/\ calls[c].tool = "query-graphql"
         /\ calls[c].args.wellTyped
         /\ \/ HasOperation(parse(calls[c].args.query), "mutation")
                  /\ ~config.allowMutations
            \/ HasOperation(parse(calls[c].args.query), "subscription")
                  /\ ~config.allowSubscriptions) =>
            calls[c].requests = <<>>

\* C39: with introspections that overlap, the retained snapshot is the one
\* built by the introspection that completed last, stamped with the time of
\* its completion: the snapshot's lastUpdated never decreases, is never
\* ahead of the clock, and a stored snapshot is replaced only by one built
\* no earlier.
C39_LastCompletedIntrospectionWins ==
    /\ [](schema # <<>> => schema[1].lastUpdated <= now)
    /\ [][/\ schema # <<>> =>
                /\ schema' # <<>>
                /\ schema'[1].lastUpdated >= schema[1].lastUpdated
          /\ \A c \in DOMAIN calls :
                IntrospectionCompletes(c) =>
                    /\ schema' = <<SchemaInfo(calls'[c].outcome.data, now)>>
                    /\ calls'[c].result[1].lastUpdated = now]_vars

\* two introspections began while no snapshot was cached, so they
\* overlapped; c1 completed at time 0 with one schema, c2 at time 1 with the
\* other, and the retained snapshot is the one of c2
C39_Witness ==
    /\ calls["c1"].tool = "introspect-schema"
    /\ calls["c2"].tool = "introspect-schema"
    /\ calls["c1"].cached = <<>>
    /\ calls["c2"].cached = <<>>
    /\ calls["c1"].outcome.status = "returned"
    /\ calls["c2"].outcome.status = "returned"
    /\ calls["c1"].result[1].lastUpdated = 0
    /\ calls["c2"].result[1].lastUpdated = 1
    /\ calls["c1"].result[1].schema # calls["c2"].result[1].schema
    /\ schema # <<>>
    /\ schema[1].lastUpdated = 1
    /\ schema[1].sdl = calls["c2"].result[1].schema

\* C40: no call changes the endpoint's default headers or the GraphQLClient,
\* whatever per-request headers it brings, so every request of a call made
\* without per-request headers, introspection or query, carries exactly the
\* default headers, also while a call with per-request headers is in
\* progress beside it.
C40_RequestHeadersStayWithTheirCall ==
    /\ [](\A c \in DOMAIN calls :
            (calls[c].tool \in {"query-graphql", "introspect-schema"}
                /\ calls[c].args.headers = <<>>) =>
                \A i \in DOMAIN calls[c].requests :
                    /\ calls[c].requests[i].headers = ClientHeaders(config)
                    /\ EffectiveHeaders(calls[c].requests[i]) = ClientHeaders(config))
    /\ [][endpoint' = endpoint /\ client' = client]_vars

\* c1 brought the header B and sleeps after its first attempt, which carried
\* b and B; c2 began meanwhile without headers and its request carries b only
C40_Witness ==
    /\ calls["c1"].tool = "query-graphql"
    /\ calls["c1"].args.headers = <<Header1("B", "3")>>
    /\ calls["c1"].pc = "sleep"
    /\ calls["c1"].requests[1].headers = Header2("b", "1", "B", "3")
    /\ calls["c2"].tool = "query-graphql"
    /\ calls["c2"].args.headers = <<>>
    /\ calls["c2"].overlaps # {}
    /\ calls["c2"].pc = "request"
    /\ calls["c2"].requests[1].headers = Header1("b", "1")
    /\ endpoint.headers = Header1("b", "1")
====
